---- MODULE Spec2Model ----
(***************************************************************************)
(* A model of mactop's telemetry pipeline (src/main.go) and of the core    *)
(* topology resolver (src/unnamed/part_000).                               *)
(*                                                                         *)
(* Byte strings are sequences of one-character strings.  Offsets are       *)
(* 0-based as in Go; Slice(d, lo, hi) is d[lo:hi].                         *)
(***************************************************************************)
EXTENDS Integers, Sequences, FiniteSets, TLC

VARIABLES
    \* the sampling subprocess and the scanner reading its stdout
    stream,       \* the bytes the sampling subprocess writes to its stdout
    rd,           \* how many bytes of stream the scanner has read so far
    sStart,       \* bufio.Scanner: first unprocessed byte of its buffer
    sEnd,         \* bufio.Scanner: end of the data in its buffer
    sErr,         \* bufio.Scanner: sticky error: "nil", "EOF", "ErrTooLong"
    token,        \* the token of the last successful Scan
    tokens,       \* history: every token Scan has returned, in order
    \* the producer goroutine, collectMetrics
    pc,           \* its position
    retryCount,   \* consecutive records that failed the marker check
    parsed,       \* the metrics extracted from the current record
    cmd,          \* the subprocess: "none", "running", "killed"
    \* the three channels of capacity 1 made by main
    cpuMetricsChan,
    gpuMetricsChan,
    netdiskMetricsChan,
    \* the consumer goroutine of main
    consumerPc,   \* "select" while it loops, "returned" after <-done
    tickerOn,     \* its ticker runs until the deferred ticker.Stop()
    gauges,       \* the Prometheus gauges it sets
    \* main and the process
    mainPc,       \* "wait" on the quit signal, "close", "returned"
    done,         \* TRUE once close(done)
    proc,         \* "running", "exit0", "exit1" (os.Exit(1), log.Fatal), "panic"
    logged,       \* the kinds of errors written to the log or the terminal
    \* main at startup
    osArgs,         \* os.Args[1:], each argument a byte string
    argI,           \* the loop variable i over os.Args
    prometheusPort, \* the port, a byte string, empty until it is set
    interval,       \* the value of --interval
    setInterval,    \* whether --interval was given
    updateInterval, \* the sampling and ticker interval in milliseconds
    serverOn,       \* startPrometheusServer has run
    \* the CPU utilization estimator
    lastCPUTimes, \* the stored snapshot
    firstRun,     \* the warm-up flag
    cpuCall,      \* history: the last call of GetCPUPercentages
    \* the core topology resolver
    sysInfo,      \* the chip: name, PCoreCount, ECoreCount, IsUltra
    topology,     \* the resolved CoreTopology, or Unresolved
    \* the executions of GetCPUPercentages in progress
    calls,        \* per call site: where the call is, and the metrics it serves
    \* the EventThrottler and the goroutines around it
    timer,        \* e.timer: "nil" or "set"
    C,            \* e.C, a channel of capacity 1
    callbacks,    \* the AfterFunc callbacks started and not yet run
    sending,      \* the callbacks that have cleared e.timer and not yet sent
    notifyPc,     \* per caller of Notify: "idle", or "store" before e.timer = t
    notified,     \* history: the calls of Notify made so far
    events,       \* history: the events received from e.C so far
    \* runHeadless
    headlessPc,       \* "idle", "init", "loop" on the ticker, "returned"
    count,            \* its argument
    samplesCollected, \* its counter
    stdout,           \* what it has printed: "[", ",", "sample", "]"
    \* CPUCoreWidget.Draw
    drawPc,       \* "idle", "draw", "done"
    cores,        \* w.cores, the usage per core
    inner,        \* w.Inner: its width Dx and height Dy
    cells         \* the cells Draw has rendered

scanVars == <<stream, rd, sStart, sEnd, sErr, token, tokens>>

prodVars == <<retryCount, parsed, cmd>>

chanVars == <<cpuMetricsChan, gpuMetricsChan, netdiskMetricsChan>>

consVars == <<consumerPc, tickerOn, gauges>>

startVars == <<osArgs, argI, prometheusPort, interval, setInterval, updateInterval,
               serverOn>>

mainVars == <<mainPc, done, startVars>>

procVars == <<proc, logged>>

cpuVars == <<lastCPUTimes, firstRun, cpuCall>>

topoVars == <<sysInfo, topology>>

callVars == <<calls>>

throttlerVars == <<timer, C, callbacks, sending, notifyPc, notified, events>>

headlessVars == <<headlessPc, count, samplesCollected, stdout>>

drawVars == <<drawPc, cores, inner, cells>>

vars == <<scanVars, pc, prodVars, chanVars, consVars, mainVars, procVars,
          cpuVars, topoVars, callVars, throttlerVars, headlessVars, drawVars>>

\* everything the scanner does not touch
notScanVars == <<prodVars, chanVars, consVars, mainVars, procVars, cpuVars, topoVars, callVars, throttlerVars, headlessVars, drawVars>>

-----------------------------------------------------------------------------
(* Bounds of the model *)

\* scanner.Buffer(make([]byte, bufferSize), bufferSize), scaled down from 10 MB
bufferSize == 32

-----------------------------------------------------------------------------
(* Byte strings *)

Min(a, b) == IF a < b THEN a ELSE b

Slice(d, lo, hi) == SubSeq(d, lo + 1, hi)

\* bytes.Index(d, pat): offset of the first occurrence of pat in d, or -1
Index(d, pat) ==
    LET hits == {i \in 0..(Len(d) - Len(pat)) : Slice(d, i, i + Len(pat)) = pat}
    IN  IF hits = {} THEN -1 ELSE CHOOSE i \in hits : \A j \in hits : i <= j

\* strings.Contains(d, pat)
Contains(d, pat) == Index(d, pat) >= 0

XmlMarker == <<"<", "?", "x", "m", "l">>

PlistMarker == <<"<", "p", "l", "i", "s", "t">>

EndMarker == <<"<", "/", "p", "l", "i", "s", "t", ">">>

-----------------------------------------------------------------------------
(* The split function handed to scanner.Split *)

NoToken(adv) == [advance |-> adv, ok |-> FALSE, token |-> <<>>]

Token(adv, tok) == [advance |-> adv, ok |-> TRUE, token |-> tok]

\* at end-of-stream the rest of the buffer is returned whether or not it
\* holds a start marker
SplitFunc_FlushAtEOF(data, atEOF) ==
    IF atEOF /\ Len(data) = 0 THEN NoToken(0)
    ELSE
    LET x     == Index(data, XmlMarker)
        start == IF x = -1 THEN Index(data, PlistMarker) ELSE x
        end   == IF start >= 0 THEN Index(Slice(data, start, Len(data)), EndMarker)
                 ELSE -1
    IN  IF start >= 0 /\ end >= 0
          THEN Token(start + end + 8, Slice(data, start, start + end + 8))
        ELSE IF atEOF
          THEN Token(Len(data), IF start >= 0 THEN Slice(data, start, Len(data)) ELSE data)
        ELSE NoToken(0)

SplitFunc(data, atEOF) ==
    IF atEOF /\ Len(data) = 0 THEN NoToken(0)
    ELSE
    LET x     == Index(data, XmlMarker)
        start == IF x = -1 THEN Index(data, PlistMarker) ELSE x
        end   == IF start >= 0 THEN Index(Slice(data, start, Len(data)), EndMarker)
                 ELSE -1
    IN  IF start >= 0 /\ end >= 0
          THEN Token(start + end + 8, Slice(data, start, start + end + 8))
        ELSE IF atEOF
          THEN IF start >= 0
                 THEN Token(Len(data), Slice(data, start, Len(data)))
                 ELSE NoToken(Len(data))
        ELSE NoToken(0)

-----------------------------------------------------------------------------
(* bufio.Scanner driving the split function: for scanner.Scan() { ... } *)

\* s.buf[s.start:s.end]: the bytes read and not yet advanced over
Data == Slice(stream, rd - (sEnd - sStart), rd)

\* One pass of Scan's loop up to the point where it returns or must read:
\* call split on what is buffered, return its token, or return false on a
\* sticky error, or make room (ErrTooLong when the buffer is full) and read.
ScanStep ==
    /\ proc = "running"
    /\ pc = "scan"
    /\ LET try == sEnd > sStart \/ sErr # "nil"
           r   == IF try THEN SplitFunc(Data, sErr # "nil") ELSE NoToken(0)
           st  == sStart + r.advance
           sh  == st > 0 /\ (sEnd = bufferSize \/ st > bufferSize \div 2)
           st2 == IF sh THEN 0 ELSE st
           en2 == IF sh THEN sEnd - st ELSE sEnd
       IN  IF r.ok
             THEN /\ sStart' = st
                  /\ token' = r.token
                  /\ tokens' = Append(tokens, r.token)
                  /\ pc' = "select"
                  /\ UNCHANGED <<sEnd, sErr>>
           ELSE IF sErr # "nil"
             THEN /\ sStart' = 0
                  /\ sEnd' = 0
                  /\ token' = <<>>
                  /\ pc' = "scanEnd"
                  /\ UNCHANGED <<sErr, tokens>>
           ELSE /\ sStart' = st2
                /\ sEnd' = en2
                /\ token' = <<>>
                /\ IF en2 = bufferSize
                     THEN sErr' = "ErrTooLong" /\ pc' = "scanEnd"
                     ELSE sErr' = sErr /\ pc' = "read"
                /\ UNCHANGED tokens
    /\ UNCHANGED <<stream, rd, notScanVars>>

\* s.r.Read(s.buf[s.end:len(s.buf)]) delivers n > 0 bytes
ScanRead ==
    /\ proc = "running"
    /\ pc = "read"
    /\ rd < Len(stream)
    /\ \E n \in 1..Min(bufferSize - sEnd, Len(stream) - rd) :
         /\ rd' = rd + n
         /\ sEnd' = sEnd + n
    /\ pc' = "scan"
    /\ UNCHANGED <<stream, sStart, sErr, token, tokens, notScanVars>>

\* the subprocess has closed its stdout: Read returns 0, io.EOF
ScanReadEOF ==
    /\ proc = "running"
    /\ pc = "read"
    /\ rd = Len(stream)
    /\ sErr' = "EOF"
    /\ pc' = "scan"
    /\ UNCHANGED <<stream, rd, sStart, sEnd, token, tokens, notScanVars>>

-----------------------------------------------------------------------------
(* The core topology resolver (src/unnamed/part_000) *)

\* the indices lo, lo+1, ..., hi-1 in order: for i := lo; i < hi; i++ { append(i) }
Range(lo, hi) == IF hi > lo THEN [k \in 1..(hi - lo) |-> lo + k - 1] ELSE <<>>

Elems(seq) == {seq[k] : k \in 1..Len(seq)}

M3Ultra == <<"M", "3", " ", "U", "l", "t", "r", "a">>

M4Pro == <<"M", "4", " ", "P", "r", "o">>

M1Ultra == <<"M", "1", " ", "U", "l", "t", "r", "a">>

M2Ultra == <<"M", "2", " ", "U", "l", "t", "r", "a">>

CoreTopology(p, e, d) == [PCoreIndices |-> p, ECoreIndices |-> e, Description |-> d]

\* case M3 Ultra 24P + 8E
M3Ultra32Topology ==
    CoreTopology(Range(4, 16) \o Range(20, 32), Range(0, 4) \o Range(16, 20),
                 "M3 Ultra 32-core: E-cores first within each die")

\* case M3 Ultra 20P + 8E
M3Ultra28Topology ==
    CoreTopology(Range(4, 14) \o Range(18, 28), Range(0, 4) \o Range(14, 18),
                 "M3 Ultra 28-core: E-cores first within each die")

\* case M4 Pro
M4ProTopology(si) ==
    CoreTopology(Range(si.ECoreCount, si.PCoreCount + si.ECoreCount),
                 Range(0, si.ECoreCount),
                 "M4 Pro: E-cores first, then P-cores")

\* a slip in the bound of the last loop: the second die's E-cores end at
\* 2*pCoresPerDie + 2*eCoresPerDie instead of totalCores
LegacyUltraTopology_DieBound(si) ==
    LET pCoresPerDie == si.PCoreCount \div 2
        eCoresPerDie == si.ECoreCount \div 2
    IN  CoreTopology(
            Range(0, pCoresPerDie)
                \o Range(pCoresPerDie + eCoresPerDie, 2 * pCoresPerDie + eCoresPerDie),
            Range(pCoresPerDie, pCoresPerDie + eCoresPerDie)
                \o Range(2 * pCoresPerDie + eCoresPerDie,
                         2 * pCoresPerDie + 2 * eCoresPerDie),
            "M1/M2 Ultra: P-cores first within each die")

\* case M1 Ultra or M2 Ultra
LegacyUltraTopology(si) ==
    LET totalCores   == si.PCoreCount + si.ECoreCount
        pCoresPerDie == si.PCoreCount \div 2
        eCoresPerDie == si.ECoreCount \div 2
    IN  CoreTopology(
            Range(0, pCoresPerDie)
                \o Range(pCoresPerDie + eCoresPerDie, 2 * pCoresPerDie + eCoresPerDie),
            Range(pCoresPerDie, pCoresPerDie + eCoresPerDie)
                \o Range(2 * pCoresPerDie + eCoresPerDie, totalCores),
            "M1/M2 Ultra: P-cores first within each die")

\* default
DefaultTopology(si) ==
    CoreTopology(Range(0, si.PCoreCount),
                 Range(si.PCoreCount, si.PCoreCount + si.ECoreCount),
                 "Standard layout: P-cores first, then E-cores")

GetCoreTopology(si) ==
    IF Contains(si.Name, M3Ultra) /\ si.PCoreCount = 24 /\ si.ECoreCount = 8
      THEN M3Ultra32Topology
    ELSE IF Contains(si.Name, M3Ultra) /\ si.PCoreCount = 20 /\ si.ECoreCount = 8
      THEN M3Ultra28Topology
    ELSE IF Contains(si.Name, M4Pro)
      THEN M4ProTopology(si)
    ELSE IF Contains(si.Name, M1Ultra) \/ Contains(si.Name, M2Ultra)
      THEN LegacyUltraTopology(si)
    ELSE DefaultTopology(si)

Unresolved == [PCoreIndices |-> <<>>, ECoreIndices |-> <<>>, Description |-> "unresolved"]

\* the largest core count per class tried besides the shipping Ultra counts
MaxCoreCount == 6

Apple == <<"A", "p", "p", "l", "e", " ">>

ChipNames ==
    { Apple \o <<"M", "1">>, Apple \o M3Ultra, Apple \o M4Pro, Apple \o M1Ultra,
      Apple \o M2Ultra, Apple \o <<"M", "4", " ", "M", "a", "x">>, <<>> }

SystemInfos ==
    [Name : ChipNames,
     PCoreCount : (0..MaxCoreCount) \cup {16, 20, 24},
     ECoreCount : (0..MaxCoreCount) \cup {8},
     IsUltra : BOOLEAN]

\* the inline loops with the second die starting where the first die's
\* P-cores end
InlineIndices_NoStride(si, n) ==
    LET pCoreCount == si.PCoreCount
        eCoreCount == si.ECoreCount
        isInterleaved ==
            si.IsUltra /\ (Contains(si.Name, <<"M", "1">>) \/ Contains(si.Name, <<"M", "2">>))
        pCorePerDie == pCoreCount \div 2
        eCorePerDie == eCoreCount \div 2
        pCoreStart(die) == die * pCorePerDie
        eCoreStart(die) == pCoreStart(die) + pCorePerDie
    IN  IF isInterleaved
          THEN [P |-> {pCoreStart(die) + i : die \in 0..1, i \in 0..(pCorePerDie - 1)}
                          \cap 0..(n - 1),
                E |-> {eCoreStart(die) + i : die \in 0..1, i \in 0..(eCorePerDie - 1)}
                          \cap 0..(n - 1)]
          ELSE [P |-> {i : i \in 0..(pCoreCount - 1)} \cap 0..(n - 1),
                E |-> {pCoreCount + i : i \in 0..(eCoreCount - 1)} \cap 0..(n - 1)]

\* runHeadless, the version that sums the group averages inline: the indices
\* of percentages, of length n, that go into pcoreSum and into ecoreSum
InlineIndices(si, n) ==
    LET pCoreCount == si.PCoreCount
        eCoreCount == si.ECoreCount
        isInterleaved ==
            si.IsUltra /\ (Contains(si.Name, <<"M", "1">>) \/ Contains(si.Name, <<"M", "2">>))
        pCorePerDie == pCoreCount \div 2
        eCorePerDie == eCoreCount \div 2
        pCoreStart(die) == die * (pCorePerDie + eCorePerDie)
        eCoreStart(die) == pCoreStart(die) + pCorePerDie
    IN  IF isInterleaved
          THEN [P |-> {pCoreStart(die) + i : die \in 0..1, i \in 0..(pCorePerDie - 1)}
                          \cap 0..(n - 1),
                E |-> {eCoreStart(die) + i : die \in 0..1, i \in 0..(eCorePerDie - 1)}
                          \cap 0..(n - 1)]
          ELSE [P |-> {i : i \in 0..(pCoreCount - 1)} \cap 0..(n - 1),
                E |-> {pCoreCount + i : i \in 0..(eCoreCount - 1)} \cap 0..(n - 1)]

\* the resolver applied to the chip
ResolveTopology ==
    /\ topology = Unresolved
    /\ topology' = GetCoreTopology(sysInfo)
    /\ UNCHANGED <<sysInfo, scanVars, pc, prodVars, chanVars, consVars, mainVars,
                   procVars, cpuVars, callVars, throttlerVars, headlessVars, drawVars>>

-----------------------------------------------------------------------------
(* The CPU utilization estimator (src/main.go, GetCPUPercentages)           *)
(*                                                                         *)
(* Tick counters are integers (float64 of a 32-bit kernel counter).  A      *)
(* percentage is the exact fraction [n, d] with d > 0 in place of the       *)
(* float64 the code computes.                                               *)

Rat(n, d) == [n |-> n, d |-> d]

RatEq(a, b) == a.n * b.d = b.n * a.d

CPUUsage(u, s, i, n) == [User |-> u, System |-> s, Idle |-> i, Nice |-> n]

\* the result of GetCPUUsage: an error, or one CPUUsage per core
QueryError == [err |-> TRUE, times |-> <<>>]

QueryOk(times) == [err |-> FALSE, times |-> times]

\* the clamp left out
Clamp_None(v) == v

\* if percentages[i] < 0 { 0 } else if percentages[i] > 100 { 100 }
Clamp(v) ==
    IF v.n < 0 THEN Rat(0, 1)
    ELSE IF v.n > 100 * v.d THEN Rat(100, 1)
    ELSE v

\* the nice ticks left out of the active delta
CorePercentage_NoNice(cur, last) ==
    LET totalDelta  == (cur.User - last.User) + (cur.System - last.System)
                       + (cur.Idle - last.Idle) + (cur.Nice - last.Nice)
        activeDelta == (cur.User - last.User) + (cur.System - last.System)
    IN  Clamp(IF totalDelta > 0 THEN Rat(activeDelta * 100, totalDelta) ELSE Rat(0, 1))

\* the body of the loop over the cores
CorePercentage(cur, last) ==
    LET totalDelta  == (cur.User - last.User) + (cur.System - last.System)
                       + (cur.Idle - last.Idle) + (cur.Nice - last.Nice)
        activeDelta == (cur.User - last.User) + (cur.System - last.System)
                       + (cur.Nice - last.Nice)
    IN  Clamp(IF totalDelta > 0 THEN Rat(activeDelta * 100, totalDelta) ELSE Rat(0, 1))

\* make([]float64, n)
Zeros(n) == [k \in 1..n |-> Rat(0, 1)]

CallResult(kind, prev, cur, out, last, first) ==
    [kind |-> kind, prev |-> prev, cur |-> cur, out |-> out,
     last |-> last, first |-> first]

\* the warm-up leaves the flag set
WarmUp_KeepFlag(last, cur) == CallResult("first", last, cur, Zeros(Len(cur)), cur, TRUE)

\* if firstRun { lastCPUTimes = currentTimes; firstRun = false; return zeros }
WarmUp(last, cur) == CallResult("first", last, cur, Zeros(Len(cur)), cur, FALSE)

\* a failed tick query overwrites the stored snapshot with the nil result
GetCPUPercentages_StoreOnError(last, first, q) ==
    IF q.err THEN CallResult("error", last, <<>>, <<>>, q.times, first)
    ELSE IF first THEN WarmUp(last, q.times)
    ELSE IF Len(q.times) > Len(last)
      THEN CallResult("panic", last, q.times, <<>>, last, first)
    ELSE CallResult("delta", last, q.times,
                    [k \in 1..Len(q.times) |-> CorePercentage(q.times[k], last[k])],
                    q.times, first)

\* GetCPUPercentages on the stored state and the result q of GetCPUUsage:
\* what it returns (kind, out) and the state it leaves (last, first).
\* lastCPUTimes[i] with i beyond the stored snapshot is an index out of range:
\* the goroutine panics before anything is stored.
GetCPUPercentages(last, first, q) ==
    IF q.err THEN CallResult("error", last, <<>>, <<>>, last, first)
    ELSE IF first THEN WarmUp(last, q.times)
    ELSE IF Len(q.times) > Len(last)
      THEN CallResult("panic", last, q.times, <<>>, last, first)
    ELSE CallResult("delta", last, q.times,
                    [k \in 1..Len(q.times) |-> CorePercentage(q.times[k], last[k])],
                    q.times, first)

NoCall == [kind |-> "none", prev |-> <<>>, cur |-> <<>>, out |-> <<>>, wasFirst |-> TRUE]

\* one call of GetCPUPercentages when the tick query answers q
CallGetCPUPercentages(q) ==
    LET r == GetCPUPercentages(lastCPUTimes, firstRun, q)
    IN  /\ cpuCall' = [kind |-> r.kind, prev |-> r.prev, cur |-> r.cur,
                        out |-> r.out, wasFirst |-> firstRun]
        /\ lastCPUTimes' = r.last
        /\ firstRun' = r.first

\* the most cores the tick query reports
MaxCores == 2

\* per-core counter values the tick query may report
TickSamples ==
    { CPUUsage(0, 0, 0, 0), CPUUsage(10, 5, 85, 0), CPUUsage(10, 5, 85, 7),
      CPUUsage(20, 5, 80, 7), CPUUsage(10, 0, 100, 7) }

Snapshots == UNION {[1..n -> TickSamples] : n \in 1..MaxCores}

QueryResults == {QueryError} \cup {QueryOk(t) : t \in Snapshots}

\* a caller of the estimator: the query answers anything, the call runs
EstimatorCall ==
    /\ proc = "running"
    /\ \E q \in QueryResults :
         /\ CallGetCPUPercentages(q)
         /\ proc' = IF cpuCall'.kind = "panic" THEN "panic" ELSE proc
    /\ UNCHANGED <<logged, scanVars, pc, prodVars, chanVars, consVars, mainVars,
                   topoVars, callVars, throttlerVars, headlessVars, drawVars>>

-----------------------------------------------------------------------------
(* Decoded records and the metric extractors                                *)
(*                                                                         *)
(* A decoded value is tagged with its Go type; a float64 is an exact        *)
(* fraction.  v.(float64) succeeds on a "real" only, v.(string) on a        *)
(* "string", v.(map[string]interface{}) on a "dict".                        *)

Absent == [type |-> "nil"]

Real(n) == [type |-> "real", v |-> Rat(n, 1)]

Frac(n, d) == [type |-> "real", v |-> Rat(n, d)]

Integer(n) == [type |-> "integer", v |-> n]

Str(x) == [type |-> "string", v |-> x]

Dict(f) == [type |-> "dict", v |-> f]

\* m[key] of a Go map: nil when the key is missing
Lookup(m, key) == IF key \in DOMAIN m THEN m[key] ELSE Absent

RECURSIVE Gcd(_, _)
Gcd(a, b) == IF b = 0 THEN a ELSE Gcd(b, a % b)

Abs(x) == IF x < 0 THEN -x ELSE x

\* a fraction in lowest terms
Norm(r) ==
    LET g == Gcd(Abs(r.n), r.d)
    IN  IF r.n = 0 THEN Rat(0, 1) ELSE Rat(r.n \div g, r.d \div g)

RatDiv(r, k) == Norm(Rat(r.n, r.d * k))

RatMul(r, k) == Norm(Rat(r.n * k, r.d))

RatAdd(a, b) == Norm(Rat(a.n * b.d + b.n * a.d, a.d * b.d))

\* int(x) of a float64: truncation toward zero
Trunc(r) == IF r.n >= 0 THEN r.n \div r.d ELSE -((-r.n) \div r.d)

RatZero == Rat(0, 1)

\* CPUMetrics{}: the zero value
ZeroCPUMetrics ==
    [CPUW |-> RatZero, GPUW |-> RatZero, PackageW |-> RatZero, Throttled |-> FALSE,
     ECores |-> "nil", PCores |-> "nil", CoreMetrics |-> "nil"]

NewCPUMetrics == [ZeroCPUMetrics EXCEPT !.ECores = "empty", !.PCores = "empty",
                                        !.CoreMetrics = "empty"]

\* GPUMetrics{}
ZeroGPUMetrics == [FreqMHz |-> 0, Active |-> 0]

\* NetDiskMetrics{}
ZeroNetDiskMetrics ==
    [OutPacketsPerSec |-> RatZero, OutBytesPerSec |-> RatZero,
     InPacketsPerSec |-> RatZero, InBytesPerSec |-> RatZero,
     ReadOpsPerSec |-> RatZero, WriteOpsPerSec |-> RatZero,
     ReadKBytesPerSec |-> RatZero, WriteKBytesPerSec |-> RatZero]

\* the raw value is stored as it is, the division by the unit left out
FloatField_NoDivisor(m, key, old, divisor) ==
    LET x == Lookup(m, key)
    IN  IF x.type = "real" THEN x.v ELSE old

\* if x, ok := m[key].(float64); ok { field = f(x) }: the field keeps old otherwise
FloatField(m, key, old, divisor) ==
    LET x == Lookup(m, key)
    IN  IF x.type = "real" THEN RatDiv(x.v, divisor) ELSE old

\* the outcome of parseCPUMetrics: the metrics, or the message of the
\* stderrLogger.Fatalf that ends the process
Extracted(m) == [fatal |-> FALSE, msg |-> "", metrics |-> m]

Fatal(msg) == [fatal |-> TRUE, msg |-> msg, metrics |-> ZeroCPUMetrics]

parseCPUMetrics(data, cpuMetrics) ==
    LET processor == Lookup(data, "processor")
        thermal   == Lookup(data, "thermal_pressure")
    IN  IF processor.type # "dict" THEN Fatal("Failed to get processor data")
        ELSE IF thermal.type # "string" THEN Fatal("Failed to get thermal data")
        ELSE Extracted(
            [cpuMetrics EXCEPT
                !.Throttled = (thermal.v # "Nominal"),
                !.ECores = "empty",
                !.PCores = "empty",
                !.CPUW = FloatField(processor.v, "cpu_power", cpuMetrics.CPUW, 1000),
                !.GPUW = FloatField(processor.v, "gpu_power", cpuMetrics.GPUW, 1000),
                !.PackageW = FloatField(processor.v, "combined_power",
                                        cpuMetrics.PackageW, 1000)])

parseGPUMetrics(data) ==
    LET gpu == Lookup(data, "gpu")
    IN  IF gpu.type # "dict" THEN ZeroGPUMetrics
        ELSE LET freqHz    == Lookup(gpu.v, "freq_hz")
                 idleRatio == Lookup(gpu.v, "idle_ratio")
             IN  [FreqMHz |-> IF freqHz.type = "real" THEN Trunc(freqHz.v) ELSE 0,
                  Active  |-> IF idleRatio.type = "real"
                                THEN Trunc(Rat((idleRatio.v.d - idleRatio.v.n) * 100,
                                               idleRatio.v.d))
                                ELSE 0]

parseNetDiskMetrics(data) ==
    LET network == Lookup(data, "network")
        disk    == Lookup(data, "disk")
        Net(key, divisor) == IF network.type = "dict"
                               THEN FloatField(network.v, key, RatZero, divisor)
                               ELSE RatZero
        Dsk(key, divisor) == IF disk.type = "dict"
                               THEN FloatField(disk.v, key, RatZero, divisor)
                               ELSE RatZero
    IN  [InBytesPerSec     |-> Net("ibyte_rate", 1000),
         OutBytesPerSec    |-> Net("obyte_rate", 1000),
         InPacketsPerSec   |-> Net("ipacket_rate", 1),
         OutPacketsPerSec  |-> Net("opacket_rate", 1),
         ReadKBytesPerSec  |-> Dsk("rbytes_per_s", 1000),
         WriteKBytesPerSec |-> Dsk("wbytes_per_s", 1000),
         ReadOpsPerSec     |-> Dsk("rops_per_s", 1),
         WriteOpsPerSec    |-> Dsk("wops_per_s", 1)]

-----------------------------------------------------------------------------
(* Decoding a framed record                                                 *)
(*                                                                         *)
(* The plist text between the markers is one byte that stands for the       *)
(* record's contents; any other contents do not decode.                     *)

HasPrefix(d, pat) == Len(d) >= Len(pat) /\ Slice(d, 0, Len(pat)) = pat

HasSuffix(d, pat) == Len(d) >= Len(pat) /\ Slice(d, Len(d) - Len(pat), Len(d)) = pat

Payload(tok) ==
    LET a == IF HasPrefix(tok, XmlMarker) THEN Slice(tok, 5, Len(tok)) ELSE tok
        b == IF HasPrefix(a, PlistMarker) THEN Slice(a, 6, Len(a)) ELSE a
    IN  IF HasSuffix(b, EndMarker) THEN Slice(b, 0, Len(b) - 8) ELSE b

\* a complete record, every section present
RecordF ==
    [processor |-> Dict([cpu_power |-> Real(5000), gpu_power |-> Real(2000),
                         combined_power |-> Real(7000)]),
     thermal_pressure |-> Str("Nominal"),
     gpu |-> Dict([freq_hz |-> Real(1398), idle_ratio |-> Frac(1, 4)]),
     network |-> Dict([ibyte_rate |-> Real(1000000), obyte_rate |-> Real(2000),
                       ipacket_rate |-> Real(3), opacket_rate |-> Real(4)]),
     disk |-> Dict([rbytes_per_s |-> Real(4096000), wbytes_per_s |-> Real(0),
                    rops_per_s |-> Real(5), wops_per_s |-> Real(6)])]

\* a throttled record: gpu_power of the wrong type, no combined_power, no
\* idle_ratio, no disk section, network not a dictionary
RecordH ==
    [processor |-> Dict([cpu_power |-> Real(9000), gpu_power |-> Integer(3000)]),
     thermal_pressure |-> Str("Heavy"),
     gpu |-> Dict([freq_hz |-> Real(444)]),
     network |-> Str("down")]

\* no processor section
RecordP ==
    [thermal_pressure |-> Str("Nominal"),
     gpu |-> Dict([freq_hz |-> Real(1398), idle_ratio |-> Frac(1, 4)])]

\* no thermal_pressure field
RecordT ==
    [processor |-> Dict([cpu_power |-> Real(5000)]),
     gpu |-> Dict([freq_hz |-> Real(1398), idle_ratio |-> Frac(1, 4)])]

DecodeOk(data) == [err |-> FALSE, data |-> data]

DecodeError == [err |-> TRUE, data |-> <<>>]

\* plist.NewDecoder(strings.NewReader(plistData)).Decode(&data)
Decode(tok) ==
    LET body == Payload(tok)
    IN  IF body = <<"F">> THEN DecodeOk(RecordF)
        ELSE IF body = <<"H">> THEN DecodeOk(RecordH)
        ELSE IF body = <<"P">> THEN DecodeOk(RecordP)
        ELSE IF body = <<"T">> THEN DecodeOk(RecordT)
        ELSE DecodeError

-----------------------------------------------------------------------------
(* The channels: make(chan T, 1) *)

ChanCap == 1

\* ch <- v blocks while the buffer is full
SendReady(ch) == Len(ch) < ChanCap

\* a plain send in place of the select: ready only when the buffer has room
SelectSendReady_Plain(ch) == Len(ch) < ChanCap

\* select { case ch <- v: default: } is always ready
SelectSendReady(ch) == TRUE

\* v is queued behind whatever the channel holds
SelectSend_Queue(ch, v) == Append(ch, v)

\* what the select leaves in the channel: v is buffered when there is room,
\* and dropped when the buffer is full
SelectSend(ch, v) == IF Len(ch) < ChanCap THEN Append(ch, v) ELSE ch

-----------------------------------------------------------------------------
(* The producer goroutine: collectMetrics *)

maxRetries == 3

NoParsed ==
    [cpu |-> ZeroCPUMetrics, gpu |-> ZeroGPUMetrics, netdisk |-> ZeroNetDiskMetrics]

\* cpumetricsChan <- CPUMetrics{}
SendInitCPU ==
    /\ proc = "running"
    /\ pc = "sendInitCPU"
    /\ SendReady(cpuMetricsChan)
    /\ cpuMetricsChan' = Append(cpuMetricsChan, ZeroCPUMetrics)
    /\ pc' = "sendInitGPU"
    /\ UNCHANGED <<gpuMetricsChan, netdiskMetricsChan, scanVars, prodVars, consVars,
                   mainVars, procVars, cpuVars, topoVars, callVars, throttlerVars, headlessVars, drawVars>>

\* gpumetricsChan <- GPUMetrics{}
SendInitGPU ==
    /\ proc = "running"
    /\ pc = "sendInitGPU"
    /\ SendReady(gpuMetricsChan)
    /\ gpuMetricsChan' = Append(gpuMetricsChan, ZeroGPUMetrics)
    /\ pc' = "sendInitNetDisk"
    /\ UNCHANGED <<cpuMetricsChan, netdiskMetricsChan, scanVars, prodVars, consVars,
                   mainVars, procVars, cpuVars, topoVars, callVars, throttlerVars, headlessVars, drawVars>>

\* netdiskMetricsChan <- NetDiskMetrics{}
SendInitNetDisk ==
    /\ proc = "running"
    /\ pc = "sendInitNetDisk"
    /\ SendReady(netdiskMetricsChan)
    /\ netdiskMetricsChan' = Append(netdiskMetricsChan, ZeroNetDiskMetrics)
    /\ pc' = "start"
    /\ UNCHANGED <<cpuMetricsChan, gpuMetricsChan, scanVars, prodVars, consVars,
                   mainVars, procVars, cpuVars, topoVars, callVars, throttlerVars, headlessVars, drawVars>>

\* exec.Command, cmd.StdoutPipe, cmd.Start succeed; the scanner is made
StartCmd ==
    /\ proc = "running"
    /\ pc = "start"
    /\ cmd' = "running"
    /\ pc' = "scan"
    /\ UNCHANGED <<retryCount, parsed, scanVars, chanVars, consVars, mainVars,
                   procVars, cpuVars, topoVars, callVars, throttlerVars, headlessVars, drawVars>>

\* cmd.StdoutPipe or cmd.Start fails: stderrLogger.Fatal(err)
StartCmdFails ==
    /\ proc = "running"
    /\ pc = "start"
    /\ proc' = "exit1"
    /\ logged' = logged \cup {"start"}
    /\ UNCHANGED <<pc, prodVars, scanVars, chanVars, consVars, mainVars, cpuVars,
                   topoVars, callVars, throttlerVars, headlessVars, drawVars>>

\* a check for the start marker alone
MarkersMissing_StartOnly(plistData) == ~Contains(plistData, XmlMarker)

\* the marker check on scanner.Text()
MarkersMissing(plistData) ==
    ~Contains(plistData, XmlMarker) \/ ~Contains(plistData, EndMarker)

\* the counter is never reset at the limit
NextRetryCount_NoReset(r) == r + 1

\* retryCount++; if retryCount >= maxRetries { retryCount = 0 }
NextRetryCount(r) == IF r + 1 >= maxRetries THEN 0 ELSE r + 1

\* a record that does not decode ends the process
ProducerSelect_FatalDecode ==
    /\ proc = "running"
    /\ pc = "select"
    /\ IF done
         THEN \* case <-done: return, and the deferred cmd.Process.Kill()
              /\ pc' = "returned"
              /\ cmd' = "killed"
              /\ UNCHANGED <<retryCount, parsed, procVars>>
       ELSE IF MarkersMissing(token)
         THEN /\ retryCount' = NextRetryCount(retryCount)
              /\ pc' = "scan"
              /\ UNCHANGED <<parsed, cmd, procVars>>
       ELSE LET dec == Decode(token)
                cpu == parseCPUMetrics(dec.data, NewCPUMetrics)
            IN  /\ retryCount' = 0
                /\ IF dec.err
                     THEN /\ logged' = logged \cup {"Error decoding plist"}
                          /\ proc' = "exit1"
                          /\ UNCHANGED <<pc, parsed, cmd>>
                   ELSE IF cpu.fatal
                     THEN /\ logged' = logged \cup {cpu.msg}
                          /\ proc' = "exit1"
                          /\ UNCHANGED <<pc, parsed, cmd>>
                   ELSE /\ parsed' = [cpu |-> cpu.metrics,
                                      gpu |-> parseGPUMetrics(dec.data),
                                      netdisk |-> parseNetDiskMetrics(dec.data)]
                        /\ pc' = "sendCPU"
                        /\ UNCHANGED <<cmd, procVars>>
    /\ UNCHANGED <<scanVars, chanVars, consVars, mainVars, cpuVars, topoVars, callVars, throttlerVars, headlessVars, drawVars>>

\* The body of the loop for one token up to the sends: the select on done,
\* the marker check with the retry counter, the decoding, the extractors.
ProducerSelect ==
    /\ proc = "running"
    /\ pc = "select"
    /\ IF done
         THEN \* case <-done: return, and the deferred cmd.Process.Kill()
              /\ pc' = "returned"
              /\ cmd' = "killed"
              /\ UNCHANGED <<retryCount, parsed, procVars>>
       ELSE IF MarkersMissing(token)
         THEN /\ retryCount' = NextRetryCount(retryCount)
              /\ pc' = "scan"
              /\ UNCHANGED <<parsed, cmd, procVars>>
       ELSE LET dec == Decode(token)
                cpu == parseCPUMetrics(dec.data, NewCPUMetrics)
            IN  /\ retryCount' = 0
                /\ IF dec.err
                     THEN /\ logged' = logged \cup {"Error decoding plist"}
                          /\ pc' = "scan"
                          /\ UNCHANGED <<parsed, cmd, proc>>
                   ELSE IF cpu.fatal
                     THEN /\ logged' = logged \cup {cpu.msg}
                          /\ proc' = "exit1"
                          /\ UNCHANGED <<pc, parsed, cmd>>
                   ELSE /\ parsed' = [cpu |-> cpu.metrics,
                                      gpu |-> parseGPUMetrics(dec.data),
                                      netdisk |-> parseNetDiskMetrics(dec.data)]
                        /\ pc' = "sendCPU"
                        /\ UNCHANGED <<cmd, procVars>>
    /\ UNCHANGED <<scanVars, chanVars, consVars, mainVars, cpuVars, topoVars, callVars, throttlerVars, headlessVars, drawVars>>

\* select { case cpumetricsChan <- cpuMetrics: default: }
SendCPU ==
    /\ proc = "running"
    /\ pc = "sendCPU"
    /\ SelectSendReady(cpuMetricsChan)
    /\ cpuMetricsChan' = SelectSend(cpuMetricsChan, parsed.cpu)
    /\ pc' = "sendGPU"
    /\ UNCHANGED <<gpuMetricsChan, netdiskMetricsChan, scanVars, prodVars, consVars,
                   mainVars, procVars, cpuVars, topoVars, callVars, throttlerVars, headlessVars, drawVars>>

\* select { case gpumetricsChan <- gpuMetrics: default: }
SendGPU ==
    /\ proc = "running"
    /\ pc = "sendGPU"
    /\ SelectSendReady(gpuMetricsChan)
    /\ gpuMetricsChan' = SelectSend(gpuMetricsChan, parsed.gpu)
    /\ pc' = "sendNetDisk"
    /\ UNCHANGED <<cpuMetricsChan, netdiskMetricsChan, scanVars, prodVars, consVars,
                   mainVars, procVars, cpuVars, topoVars, callVars, throttlerVars, headlessVars, drawVars>>

\* select { case netdiskMetricsChan <- netdiskMetrics: default: }
SendNetDisk ==
    /\ proc = "running"
    /\ pc = "sendNetDisk"
    /\ SelectSendReady(netdiskMetricsChan)
    /\ netdiskMetricsChan' = SelectSend(netdiskMetricsChan, parsed.netdisk)
    /\ pc' = "scan"
    /\ UNCHANGED <<cpuMetricsChan, gpuMetricsChan, scanVars, prodVars, consVars,
                   mainVars, procVars, cpuVars, topoVars, callVars, throttlerVars, headlessVars, drawVars>>

\* scanner.Scan() returned false: the loop ends, collectMetrics returns and
\* its deferred function kills the subprocess; scanner.Err() is not consulted
ProducerReturn ==
    /\ proc = "running"
    /\ pc = "scanEnd"
    /\ pc' = "returned"
    /\ cmd' = "killed"
    /\ UNCHANGED <<retryCount, parsed, scanVars, chanVars, consVars, mainVars,
                   procVars, cpuVars, topoVars, callVars, throttlerVars, headlessVars, drawVars>>

-----------------------------------------------------------------------------
(* The consumer goroutine of main and the Prometheus gauges *)

ZeroGauges ==
    [cpuUsage |-> RatZero, eCoreUsage |-> RatZero, pCoreUsage |-> RatZero,
     memory |-> "unset", pCores |-> 0, eCores |-> 0, isThrottled |-> FALSE,
     gpuUsage |-> 0, gpuFreqMHz |-> 0,
     netIn |-> RatZero, netOut |-> RatZero, diskRead |-> RatZero, diskWrite |-> RatZero]

RECURSIVE SumUpTo(_, _, _)
\* the sum of usages[lo..hi-1] (0-based), stopping at the end of usages
SumUpTo(usages, lo, hi) ==
    IF lo >= hi \/ lo >= Len(usages) THEN RatZero
    ELSE RatAdd(usages[lo + 1], SumUpTo(usages, lo + 1, hi))

\* totalUsage / float64(len(...)); the snapshots of the model have a core
Average(usages) == RatDiv(SumUpTo(usages, 0, Len(usages)), Len(usages))

\* the gauges updateCPUPrometheus sets from the per-core usages
CPUGauges(g, cpuMetrics, coreUsages) ==
    LET eCoreCount == sysInfo.ECoreCount
        pCoreCount == sysInfo.PCoreCount
    IN  [g EXCEPT
           !.cpuUsage = Average(coreUsages),
           !.eCoreUsage = IF eCoreCount > 0
                            THEN RatDiv(SumUpTo(coreUsages, 0, eCoreCount), eCoreCount)
                            ELSE RatZero,
           !.pCoreUsage = IF pCoreCount > 0
                            THEN RatDiv(SumUpTo(coreUsages, eCoreCount,
                                                eCoreCount + pCoreCount), pCoreCount)
                            ELSE RatZero,
           !.memory = "set",
           !.pCores = pCoreCount,
           !.eCores = eCoreCount,
           !.isThrottled = cpuMetrics.Throttled]

\* updateCPUPrometheus: the indices of coreUsages, of length n, that go into
\* eCoreTotal and into pCoreTotal
UpdateIndices(si, n) ==
    LET eCoreCount == si.ECoreCount
        pCoreCount == si.PCoreCount
    IN  [E |-> IF eCoreCount > 0
                 THEN {i \in 0..(eCoreCount - 1) : i < n}
                 ELSE {},
         P |-> IF pCoreCount > 0
                 THEN {i \in eCoreCount..(eCoreCount + pCoreCount - 1) : i < n}
                 ELSE {}]

\* the tick query as the pipeline sees it
PipelineQueryResults ==
    { QueryError,
      QueryOk(<<CPUUsage(10, 5, 85, 0), CPUUsage(0, 0, 0, 0)>>) }

\* what a call of GetCPUPercentages does to the process and the log
AfterCall(msg) ==
    /\ proc' = IF cpuCall'.kind = "panic" THEN "panic" ELSE proc
    /\ logged' = IF cpuCall'.kind = "error" THEN logged \cup {msg} ELSE logged

\* case cpuMetrics := <-cpuMetricsChan: updateCPUPrometheus(cpuMetrics)
RecvCPU ==
    /\ proc = "running"
    /\ consumerPc = "select"
    /\ Len(cpuMetricsChan) > 0
    /\ cpuMetricsChan' = Tail(cpuMetricsChan)
    /\ \E q \in PipelineQueryResults :
         /\ CallGetCPUPercentages(q)
         /\ AfterCall("Error getting CPU percentages")
         /\ gauges' = IF cpuCall'.kind \in {"first", "delta"}
                        THEN CPUGauges(gauges, Head(cpuMetricsChan), cpuCall'.out)
                        ELSE gauges
    /\ UNCHANGED <<gpuMetricsChan, netdiskMetricsChan, consumerPc, tickerOn, scanVars,
                   pc, prodVars, mainVars, topoVars, callVars, throttlerVars, headlessVars, drawVars>>

\* case gpuMetrics := <-gpuMetricsChan: updateGPUPrometheus(gpuMetrics)
RecvGPU ==
    /\ proc = "running"
    /\ consumerPc = "select"
    /\ Len(gpuMetricsChan) > 0
    /\ gpuMetricsChan' = Tail(gpuMetricsChan)
    /\ gauges' = [gauges EXCEPT !.gpuUsage = Head(gpuMetricsChan).Active,
                                !.gpuFreqMHz = Head(gpuMetricsChan).FreqMHz]
    /\ UNCHANGED <<cpuMetricsChan, netdiskMetricsChan, consumerPc, tickerOn, scanVars,
                   pc, prodVars, mainVars, procVars, cpuVars, topoVars, callVars, throttlerVars, headlessVars, drawVars>>

\* (x * 1000) / (1024 * 1024)
ToMB(x) == RatDiv(RatMul(x, 1000), 1024 * 1024)

\* case netdiskMetrics := <-netdiskMetricsChan: updateNetDiskPrometheus(netdiskMetrics)
RecvNetDisk ==
    /\ proc = "running"
    /\ consumerPc = "select"
    /\ Len(netdiskMetricsChan) > 0
    /\ netdiskMetricsChan' = Tail(netdiskMetricsChan)
    /\ LET m == Head(netdiskMetricsChan)
       IN  gauges' = [gauges EXCEPT !.netIn = ToMB(m.InBytesPerSec),
                                    !.netOut = ToMB(m.OutBytesPerSec),
                                    !.diskRead = ToMB(m.ReadKBytesPerSec),
                                    !.diskWrite = ToMB(m.WriteKBytesPerSec)]
    /\ UNCHANGED <<cpuMetricsChan, gpuMetricsChan, consumerPc, tickerOn, scanVars,
                   pc, prodVars, mainVars, procVars, cpuVars, topoVars, callVars, throttlerVars, headlessVars, drawVars>>

\* case <-ticker.C: GetCPUPercentages, then cpuUsage.Set(average)
Tick ==
    /\ proc = "running"
    /\ consumerPc = "select"
    /\ tickerOn
    /\ \E q \in PipelineQueryResults :
         /\ CallGetCPUPercentages(q)
         /\ AfterCall("Error getting CPU percentages")
         /\ gauges' = IF cpuCall'.kind \in {"first", "delta"}
                        THEN [gauges EXCEPT !.cpuUsage = Average(cpuCall'.out)]
                        ELSE gauges
    /\ UNCHANGED <<consumerPc, tickerOn, chanVars, scanVars, pc, prodVars, mainVars,
                   topoVars, callVars, throttlerVars, headlessVars, drawVars>>

\* case <-done: return, and the deferred ticker.Stop()
ConsumerDone ==
    /\ proc = "running"
    /\ consumerPc = "select"
    /\ done
    /\ consumerPc' = "returned"
    /\ tickerOn' = FALSE
    /\ UNCHANGED <<gauges, chanVars, scanVars, pc, prodVars, mainVars, procVars,
                   cpuVars, topoVars, callVars, throttlerVars, headlessVars, drawVars>>

-----------------------------------------------------------------------------
(* main after startup: it waits for the signal, closes done and returns *)

\* <-quit: SIGINT or SIGTERM arrives; close(done)
MainCloseDone ==
    /\ proc = "running"
    /\ mainPc = "wait"
    /\ done' = TRUE
    /\ mainPc' = "return"
    /\ UNCHANGED <<startVars, scanVars, pc, prodVars, chanVars, consVars, procVars,
                   cpuVars, topoVars, callVars, throttlerVars, headlessVars, drawVars>>

\* main returns: the process exits and with it every goroutine
MainReturn ==
    /\ proc = "running"
    /\ mainPc = "return"
    /\ mainPc' = "returned"
    /\ proc' = "exit0"
    /\ UNCHANGED <<done, startVars, logged, scanVars, pc, prodVars, chanVars, consVars,
                   cpuVars, topoVars, callVars, throttlerVars, headlessVars, drawVars>>

\* go func() { ticker := time.NewTicker(...); defer ticker.Stop(); for { select ... } }
\* time.NewTicker panics on a duration that is not positive
ConsumerStart ==
    /\ proc = "running"
    /\ consumerPc = "start"
    /\ IF updateInterval <= 0
         THEN /\ proc' = "panic"
              /\ UNCHANGED <<tickerOn, consumerPc, logged>>
         ELSE /\ tickerOn' = TRUE
              /\ consumerPc' = "select"
              /\ UNCHANGED procVars
    /\ UNCHANGED <<gauges, chanVars, scanVars, pc, prodVars, mainVars, cpuVars,
                   topoVars, callVars, throttlerVars, headlessVars, drawVars>>

-----------------------------------------------------------------------------
(* main at startup: the arguments, the checks, the server, the goroutines   *)

\* var updateInterval = 1000
DefaultUpdateInterval == 1000

\* the most arguments on the command line: a port and an interval with room
MaxArgs == 4

ArgHelpLong == <<"-", "-", "h", "e", "l", "p">>

ArgHelp == <<"-", "h">>

ArgVersionLong == <<"-", "-", "v", "e", "r", "s", "i", "o", "n">>

ArgVersion == <<"-", "v">>

ArgPrometheus == <<"-", "-", "p", "r", "o", "m", "e", "t", "h", "e", "u", "s">>

ArgP == <<"-", "p">>

ArgInterval == <<"-", "-", "i", "n", "t", "e", "r", "v", "a", "l">>

ArgI == <<"-", "i">>

Port9090 == <<"9", "0", "9", "0">>

\* the form the usage text gives as the example: --prometheus=9090
ArgPrometheusEq == ArgPrometheus \o <<"=">> \o Port9090

\* what a command line is made of
ArgWords ==
    { ArgHelp, ArgP, ArgInterval, ArgPrometheusEq, Port9090, <<"0">>, <<"-", "5">>,
      <<"x">> }

CommandLines == UNION {[1..n -> ArgWords] : n \in 0..MaxArgs}

Digits == <<"0", "1", "2", "3", "4", "5", "6", "7", "8", "9">>

IsDigit(c) == \E k \in 1..10 : Digits[k] = c

DigitValue(c) == (CHOOSE k \in 1..10 : Digits[k] = c) - 1

RECURSIVE DigitsValue(_)
DigitsValue(d) ==
    IF d = <<>> THEN 0
    ELSE DigitsValue(SubSeq(d, 1, Len(d) - 1)) * 10 + DigitValue(d[Len(d)])

\* strconv.Atoi: an optional sign and decimal digits, anything else an error
Atoi(a) ==
    LET signed == a # <<>> /\ a[1] \in {"+", "-"}
        body   == IF signed THEN Tail(a) ELSE a
    IN  IF body = <<>> \/ \E k \in 1..Len(body) : ~IsDigit(body[k])
          THEN [err |-> TRUE, v |-> 0]
          ELSE [err |-> FALSE,
                v |-> IF signed /\ a[1] = "-" THEN -DigitsValue(body)
                      ELSE DigitsValue(body)]

\* fmt.Println(msg); os.Exit(code)
Exit(code, msg) ==
    /\ proc' = (IF code = 0 THEN "exit0" ELSE "exit1")
    /\ logged' = logged \cup {msg}

\* one iteration of the loop over os.Args: the switch on os.Args[i]
ParseArg ==
    /\ proc = "running"
    /\ mainPc = "args"
    /\ argI <= Len(osArgs)
    /\ LET a == osArgs[argI]
       IN  IF a \in {ArgHelpLong, ArgHelp}
             THEN /\ Exit(0, "Usage")
                  /\ UNCHANGED <<argI, prometheusPort, interval, setInterval>>
           ELSE IF a \in {ArgVersionLong, ArgVersion}
             THEN /\ Exit(0, "mactop version")
                  /\ UNCHANGED <<argI, prometheusPort, interval, setInterval>>
           ELSE IF a \in {ArgPrometheus, ArgP}
             THEN IF argI + 1 <= Len(osArgs)
                    THEN /\ prometheusPort' = osArgs[argI + 1]
                         /\ argI' = argI + 2
                         /\ UNCHANGED <<interval, setInterval, procVars>>
                    ELSE /\ Exit(1, "Error: --prometheus flag requires a port number")
                         /\ UNCHANGED <<argI, prometheusPort, interval, setInterval>>
           ELSE IF a \in {ArgInterval, ArgI}
             THEN IF argI + 1 <= Len(osArgs)
                    THEN LET n == Atoi(osArgs[argI + 1])
                         IN  IF n.err
                               THEN /\ Exit(1, "Invalid interval")
                                    /\ UNCHANGED <<argI, prometheusPort, interval,
                                                   setInterval>>
                               ELSE /\ interval' = n.v
                                    /\ setInterval' = TRUE
                                    /\ argI' = argI + 2
                                    /\ UNCHANGED <<prometheusPort, procVars>>
                    ELSE /\ Exit(1, "Error: --interval flag requires an interval value")
                         /\ UNCHANGED <<argI, prometheusPort, interval, setInterval>>
           ELSE /\ argI' = argI + 1
                /\ UNCHANGED <<prometheusPort, interval, setInterval, procVars>>
    /\ UNCHANGED <<osArgs, updateInterval, serverOn, mainPc, done, scanVars, pc,
                   prodVars, chanVars, consVars, cpuVars, topoVars, callVars, throttlerVars, headlessVars, drawVars>>

\* after the loop: if prometheusPort == "" { ...; os.Exit(1) }
CheckPort ==
    /\ proc = "running"
    /\ mainPc = "args"
    /\ argI > Len(osArgs)
    /\ IF prometheusPort = <<>>
         THEN /\ Exit(1, "Error: Prometheus port is required")
              /\ UNCHANGED mainPc
         ELSE /\ mainPc' = "euid"
              /\ UNCHANGED procVars
    /\ UNCHANGED <<done, startVars, scanVars, pc, prodVars, chanVars, consVars,
                   cpuVars, topoVars, callVars, throttlerVars, headlessVars, drawVars>>

\* if os.Geteuid() != 0 { ...; os.Exit(1) }
CheckEuid ==
    /\ proc = "running"
    /\ mainPc = "euid"
    /\ \E root \in BOOLEAN :
         IF root
           THEN /\ mainPc' = "logfile"
                /\ UNCHANGED procVars
           ELSE /\ Exit(1, "Please try again and run mactop with sudo privileges")
                /\ UNCHANGED mainPc
    /\ UNCHANGED <<done, startVars, scanVars, pc, prodVars, chanVars, consVars,
                   cpuVars, topoVars, callVars, throttlerVars, headlessVars, drawVars>>

\* setupLogfile, then getSOCInfo for the lines written to the log: either
\* may fail, and the failure ends the process through stderrLogger.Fatalf
SetupLogfile ==
    /\ proc = "running"
    /\ mainPc = "logfile"
    /\ \E ok \in BOOLEAN :
         IF ok
           THEN /\ mainPc' = "server"
                /\ UNCHANGED procVars
           ELSE /\ Exit(1, "failed to setup log file")
                /\ UNCHANGED mainPc
    /\ UNCHANGED <<done, startVars, scanVars, pc, prodVars, chanVars, consVars,
                   cpuVars, topoVars, callVars, throttlerVars, headlessVars, drawVars>>

\* startPrometheusServer(prometheusPort)
StartServer ==
    /\ proc = "running"
    /\ mainPc = "server"
    /\ serverOn' = TRUE
    /\ mainPc' = "pipeline"
    /\ UNCHANGED <<osArgs, argI, prometheusPort, interval, setInterval,
                   updateInterval, done, scanVars, pc, prodVars, chanVars, consVars,
                   procVars, cpuVars, topoVars, callVars, throttlerVars, headlessVars, drawVars>>

\* if setInterval { updateInterval = interval }; the channels are made and
\* the two goroutines started; main then waits for the signal
StartPipeline ==
    /\ proc = "running"
    /\ mainPc = "pipeline"
    /\ updateInterval' = (IF setInterval THEN interval ELSE updateInterval)
    /\ cpuMetricsChan' = <<>>
    /\ gpuMetricsChan' = <<>>
    /\ netdiskMetricsChan' = <<>>
    /\ pc' = "sendInitCPU"
    /\ consumerPc' = "start"
    /\ mainPc' = "wait"
    /\ UNCHANGED <<osArgs, argI, prometheusPort, interval, setInterval, serverOn,
                   done, tickerOn, gauges, scanVars, prodVars, procVars, cpuVars,
                   topoVars, callVars, throttlerVars, headlessVars, drawVars>>

-----------------------------------------------------------------------------
(* The executions of GetCPUPercentages (src/main.go): the call of the      *)
(* ticker case and the call inside updateCPUPrometheus, each with a begin   *)
(* and an end.  A goroutine runs one statement at a time, so a call site    *)
(* begins a call only when no call of its goroutine is in progress.         *)

CallSites == {"tick", "update"}

\* each call site in a goroutine of its own
Goroutine_PerSite(site) == site

\* the goroutine a call site runs in: both are cases of the one select loop
Goroutine(site) == "consumer"

\* the tick query as the two call sites see it
CallQueryResults ==
    PipelineQueryResults
        \cup { QueryOk(<<CPUUsage(20, 5, 85, 0), CPUUsage(0, 0, 0, 10)>>),
               QueryOk(<<CPUUsage(30, 15, 255, 0), CPUUsage(1, 1, 1, 1)>>) }

NoCalls == [site \in CallSites |-> [at |-> "idle", m |-> ZeroCPUMetrics]]

\* the goroutine g is inside a call of GetCPUPercentages
Busy(g) == \E s \in CallSites : Goroutine(s) = g /\ calls[s].at # "idle"

\* case <-ticker.C: the call of GetCPUPercentages begins
BeginTickCall ==
    /\ proc = "running"
    /\ consumerPc = "select"
    /\ tickerOn
    /\ ~Busy(Goroutine("tick"))
    /\ calls' = [calls EXCEPT !["tick"].at = "call"]
    /\ UNCHANGED <<scanVars, pc, prodVars, chanVars, consVars, mainVars, procVars,
                   cpuVars, topoVars, throttlerVars, headlessVars, drawVars>>

\* case <-ticker.C: the call returns and cpuUsage is set
EndTickCall ==
    /\ proc = "running"
    /\ calls["tick"].at = "call"
    /\ \E q \in CallQueryResults :
         /\ CallGetCPUPercentages(q)
         /\ AfterCall("Error getting CPU percentages")
         /\ gauges' = IF cpuCall'.kind \in {"first", "delta"}
                        THEN [gauges EXCEPT !.cpuUsage = Average(cpuCall'.out)]
                        ELSE gauges
    /\ calls' = [calls EXCEPT !["tick"].at = "idle"]
    /\ UNCHANGED <<consumerPc, tickerOn, chanVars, scanVars, pc, prodVars, mainVars,
                   topoVars, throttlerVars, headlessVars, drawVars>>

\* case cpuMetrics := <-cpuMetricsChan: updateCPUPrometheus begins its call
BeginUpdateCall ==
    /\ proc = "running"
    /\ consumerPc = "select"
    /\ Len(cpuMetricsChan) > 0
    /\ ~Busy(Goroutine("update"))
    /\ cpuMetricsChan' = Tail(cpuMetricsChan)
    /\ calls' = [calls EXCEPT !["update"] = [at |-> "call", m |-> Head(cpuMetricsChan)]]
    /\ UNCHANGED <<gpuMetricsChan, netdiskMetricsChan, scanVars, pc, prodVars, consVars,
                   mainVars, procVars, cpuVars, topoVars, throttlerVars, headlessVars, drawVars>>

\* updateCPUPrometheus: the call returns and the CPU gauges are set
EndUpdateCall ==
    /\ proc = "running"
    /\ calls["update"].at = "call"
    /\ \E q \in CallQueryResults :
         /\ CallGetCPUPercentages(q)
         /\ AfterCall("Error getting CPU percentages")
         /\ gauges' = IF cpuCall'.kind \in {"first", "delta"}
                        THEN CPUGauges(gauges, calls["update"].m, cpuCall'.out)
                        ELSE gauges
    /\ calls' = [calls EXCEPT !["update"] = [at |-> "idle", m |-> ZeroCPUMetrics]]
    /\ UNCHANGED <<consumerPc, tickerOn, chanVars, scanVars, pc, prodVars, mainVars,
                   topoVars, throttlerVars, headlessVars, drawVars>>

-----------------------------------------------------------------------------
(* The EventThrottler (src/unnamed/part_000): Notify, the callback that     *)
(* time.AfterFunc runs in a goroutine of its own once the grace period is   *)
(* over, and a receiver of e.C.  e.timer is read and written by Notify and  *)
(* by the callback with no lock: every order of those accesses is taken.    *)

\* the goroutines that call Notify
MaxNotifiers == 2

Notifiers == 1..MaxNotifiers

\* the calls of Notify made in a run
MaxNotifies == 4

Event == "event"

\* Notify without its check of e.timer
Notify_NoCheck(n) ==
    /\ notifyPc[n] = "idle"
    /\ notified < MaxNotifies
    /\ notified' = notified + 1
    /\ callbacks' = callbacks + 1
    /\ notifyPc' = [notifyPc EXCEPT ![n] = "store"]
    /\ UNCHANGED <<timer, C, sending, events>>
    /\ UNCHANGED <<scanVars, pc, prodVars, chanVars, consVars, mainVars, procVars,
                   cpuVars, topoVars, callVars, headlessVars, drawVars>>

\* Notify up to the return of time.AfterFunc: it returns at once when
\* e.timer is set, and starts a timer otherwise
Notify(n) ==
    /\ notifyPc[n] = "idle"
    /\ notified < MaxNotifies
    /\ notified' = notified + 1
    /\ IF timer # "nil"
         THEN UNCHANGED <<callbacks, notifyPc>>
         ELSE /\ callbacks' = callbacks + 1
              /\ notifyPc' = [notifyPc EXCEPT ![n] = "store"]
    /\ UNCHANGED <<timer, C, sending, events>>
    /\ UNCHANGED <<scanVars, pc, prodVars, chanVars, consVars, mainVars, procVars,
                   cpuVars, topoVars, callVars, headlessVars, drawVars>>

\* e.timer = <the timer AfterFunc returned>
NotifyStore(n) ==
    /\ notifyPc[n] = "store"
    /\ timer' = "set"
    /\ notifyPc' = [notifyPc EXCEPT ![n] = "idle"]
    /\ UNCHANGED <<C, callbacks, sending, notified, events>>
    /\ UNCHANGED <<scanVars, pc, prodVars, chanVars, consVars, mainVars, procVars,
                   cpuVars, topoVars, callVars, headlessVars, drawVars>>

\* the grace period of a timer is over: its callback runs e.timer = nil
TimerFires ==
    /\ callbacks > 0
    /\ timer' = "nil"
    /\ callbacks' = callbacks - 1
    /\ sending' = sending + 1
    /\ UNCHANGED <<C, notifyPc, notified, events>>
    /\ UNCHANGED <<scanVars, pc, prodVars, chanVars, consVars, mainVars, procVars,
                   cpuVars, topoVars, callVars, headlessVars, drawVars>>

\* the callback's select { case e.C <- struct{}{}: default: }
CallbackSend ==
    /\ sending > 0
    /\ C' = SelectSend(C, Event)
    /\ sending' = sending - 1
    /\ UNCHANGED <<timer, callbacks, notifyPc, notified, events>>
    /\ UNCHANGED <<scanVars, pc, prodVars, chanVars, consVars, mainVars, procVars,
                   cpuVars, topoVars, callVars, headlessVars, drawVars>>

\* <-e.C in the goroutine that waits for events
ReceiveEvent ==
    /\ Len(C) > 0
    /\ C' = Tail(C)
    /\ events' = events + 1
    /\ UNCHANGED <<timer, callbacks, sending, notifyPc, notified>>
    /\ UNCHANGED <<scanVars, pc, prodVars, chanVars, consVars, mainVars, procVars,
                   cpuVars, topoVars, callVars, headlessVars, drawVars>>

-----------------------------------------------------------------------------
(* runHeadless (src/main.go): the samples it takes on its ticker and what  *)
(* it prints around them.  What a sample holds is left out; a sample that   *)
(* json.Encoder cannot encode prints nothing.                               *)

\* the largest count runHeadless is called with
MaxCount == 3

\* the ticks taken by a run that never returns
MaxSamples == 4

RECURSIVE SumAt(_, _)
\* the sum of percentages[idx] over the indices below len(percentages)
SumAt(indices, percentages) ==
    IF indices = <<>> THEN RatZero
    ELSE LET idx == Head(indices)
         IN  RatAdd(IF idx < Len(percentages) THEN percentages[idx + 1] ELSE RatZero,
                    SumAt(Tail(indices), percentages))

\* pcoreSum / float64(len(topology.PCoreIndices)), and the same for E-cores
TopologyAverage(indices, percentages) ==
    IF Len(indices) > 0 THEN RatDiv(SumAt(indices, percentages), Len(indices))
    ELSE RatZero

\* the gauges a sample sets when the Prometheus port is given
HeadlessGauges(g, percentages) ==
    LET t == GetCoreTopology(sysInfo)
    IN  [g EXCEPT
           !.cpuUsage = Average(percentages),
           !.eCoreUsage = TopologyAverage(t.ECoreIndices, percentages),
           !.pCoreUsage = TopologyAverage(t.PCoreIndices, percentages),
           !.memory = "set"]

\* the run goes on after the sample that makes samplesCollected exceed count
Finished_OneMore(cnt, samples) == cnt > 0 /\ samples > cnt

\* if count > 0 && samplesCollected >= count
Finished(cnt, samples) == cnt > 0 /\ samples >= cnt

\* initSocMetrics fails: the message and os.Exit(1)
HeadlessInitFails ==
    /\ proc = "running"
    /\ headlessPc = "init"
    /\ Exit(1, "Failed to initialize metrics")
    /\ UNCHANGED <<scanVars, pc, prodVars, chanVars, consVars, mainVars, cpuVars,
                   topoVars, callVars, throttlerVars, headlessVars, drawVars>>

\* runHeadless up to its loop: the server, the ticker, the warm-up call of
\* GetCPUPercentages, and "[" when count > 0
HeadlessInit ==
    /\ proc = "running"
    /\ headlessPc = "init"
    /\ serverOn' = (serverOn \/ prometheusPort # <<>>)
    /\ IF updateInterval <= 0
         THEN /\ proc' = "panic"
              /\ UNCHANGED <<tickerOn, cpuVars, headlessVars>>
         ELSE /\ tickerOn' = TRUE
              /\ \E q \in PipelineQueryResults : CallGetCPUPercentages(q)
              /\ proc' = IF cpuCall'.kind = "panic" THEN "panic" ELSE proc
              /\ stdout' = IF count > 0 THEN Append(stdout, "[") ELSE stdout
              /\ samplesCollected' = 0
              /\ headlessPc' = "loop"
              /\ UNCHANGED count
    /\ UNCHANGED <<osArgs, argI, prometheusPort, interval, setInterval, updateInterval,
                   mainPc, done, logged, consumerPc, gauges, scanVars, pc, prodVars,
                   chanVars, topoVars, callVars, throttlerVars, drawVars>>

\* one pass of for range ticker.C: the sample, the gauges, "," before every
\* sample but the first, the encoded sample, the counter, and "]" and the
\* return with its deferred ticker.Stop() once count samples are taken
HeadlessTick ==
    /\ proc = "running"
    /\ headlessPc = "loop"
    /\ tickerOn
    /\ samplesCollected < MaxSamples
    /\ \E q \in PipelineQueryResults, encoded \in BOOLEAN :
         /\ CallGetCPUPercentages(q)
         /\ proc' = IF cpuCall'.kind = "panic" THEN "panic" ELSE proc
         /\ gauges' = IF prometheusPort # <<>> /\ Len(cpuCall'.out) > 0
                        THEN HeadlessGauges(gauges, cpuCall'.out)
                        ELSE gauges
         /\ logged' = IF encoded THEN logged ELSE logged \cup {"Error encoding JSON"}
         /\ samplesCollected' = samplesCollected + 1
         /\ LET sep  == IF samplesCollected > 0 /\ count > 0 THEN <<",">> ELSE <<>>
                body == IF encoded THEN <<"sample">> ELSE <<>>
                fin  == Finished(count, samplesCollected')
            IN  /\ stdout' = stdout \o sep \o body \o (IF fin THEN <<"]">> ELSE <<>>)
                /\ headlessPc' = IF fin THEN "returned" ELSE "loop"
                /\ tickerOn' = ~fin
    /\ UNCHANGED <<count, consumerPc, mainVars, scanVars, pc, prodVars, chanVars,
                   topoVars, callVars, throttlerVars, drawVars>>

-----------------------------------------------------------------------------
(* CPUCoreWidget.Draw (src/unnamed/part_000): the grid it lays the cores    *)
(* out in and the cells it renders.  Offsets are relative to w.Inner.Min.   *)

\* the most cores a widget shows
MaxDrawCores == 18

\* w.Inner.Dx() and w.Inner.Dy() of the terminals tried
Widths == {30, 80, 100, 160}

Heights == {1, 2, 5}

Max(a, b) == IF a > b THEN a ELSE b

minColWidth == 20

labelWidth == 3

\* the columns before the height is looked at
ColsForWidth(totalCores, availableWidth) ==
    LET cols == IF totalCores > 16 THEN 8 ELSE 4
    IN  IF availableWidth \div cols < minColWidth
          THEN Max(1, availableWidth \div minColWidth)
          ELSE cols

\* cols and rows as Draw computes them
Grid(totalCores, availableWidth, availableHeight) ==
    LET cols == ColsForWidth(totalCores, availableWidth)
        rows == (totalCores + cols - 1) \div cols
    IN  IF rows > availableHeight
          THEN [rows |-> availableHeight,
                cols |-> (totalCores + availableHeight - 1) \div availableHeight]
          ELSE [rows |-> rows, cols |-> cols]

\* the loop over i: the cells whose label is set, each with the index of the
\* core it shows and whether its bar is drawn as well
DrawCells(totalCores, availableWidth, availableHeight) ==
    LET g         == Grid(totalCores, availableWidth, availableHeight)
        baseWidth == availableWidth \div g.cols
        remainder == availableWidth % g.cols
        colX(c)   == c * baseWidth + (IF c < remainder THEN c ELSE remainder)
        colWidth(c) == baseWidth + (IF c < remainder THEN 1 ELSE 0)
        Cell(i) ==
            LET col == i % g.cols
                row == i \div g.cols
                actualIndex == col * g.rows + row
                x   == colX(col)
                aw  == colWidth(col) - labelWidth
                availWidth == IF x + labelWidth + aw > availableWidth
                                THEN availableWidth - x - labelWidth
                                ELSE aw
            IN  [i |-> i, index |-> actualIndex, col |-> col, row |-> row,
                 skip |-> (actualIndex >= totalCores \/ row >= g.rows
                              \/ row >= availableHeight),
                 bar |-> availWidth >= 9]
    IN  {c \in {Cell(i) : i \in 0..(totalCores - 1)} : ~c.skip}

\* Draw: nothing for a widget without cores, the cells of the grid otherwise
Draw ==
    /\ drawPc = "draw"
    /\ cells' = IF Len(cores) = 0 THEN {}
                ELSE DrawCells(Len(cores), inner.Dx, inner.Dy)
    /\ drawPc' = "done"
    /\ UNCHANGED <<cores, inner>>
    /\ UNCHANGED <<scanVars, pc, prodVars, chanVars, consVars, mainVars, procVars,
                   cpuVars, topoVars, callVars, throttlerVars, headlessVars>>

-----------------------------------------------------------------------------
(* The framer alone: streams of two records, of noise, and of records that *)
(* never end, read in chunks of every size.                                *)

Rep(c, n) == [i \in 1..n |-> c]

\* noise: bytes that hold no complete start marker
Noise == {<<>>, <<"n">>, <<"<", "p">>}

XmlRecord(body) == XmlMarker \o body \o EndMarker

PlistRecord(body) == PlistMarker \o body \o EndMarker

\* the form the sampling tool writes: an XML declaration, then the plist element
DocRecord(body) == XmlMarker \o PlistMarker \o body \o EndMarker

Records(body) == {XmlRecord(body), PlistRecord(body), DocRecord(body)}

TwoRecordStreams ==
    {n0 \o r1 \o n1 \o r2 \o n2 :
        n0 \in Noise, r1 \in Records(<<"a">>), n1 \in Noise,
        r2 \in Records(<<"b">>), n2 \in Noise}

NoMarkerStreams ==
    { <<>>, <<"n">>, EndMarker, <<"<", "?", "x", "m">>, <<"<", "p", "l", "i", "s">>,
      <<"<", "?", "x", "m">> \o <<"<", "p", "l", "i", "s">> \o EndMarker,
      <<"?", "x", "m", "l">> \o <<"p", "l", "i", "s", "t">>,
      Rep("n", bufferSize + 2) }

DanglingStreams ==
    { XmlMarker \o <<"a">>, <<"n">> \o PlistMarker \o <<"a">>,
      XmlRecord(<<"a">>) \o XmlMarker \o <<"b">>,
      XmlMarker \o Rep("a", bufferSize) }

FramerStreams == TwoRecordStreams \cup NoMarkerStreams \cup DanglingStreams

\* what the subprocess writes in the runs of the whole pipeline
PipelineStreams ==
    { XmlRecord(<<"F">>) \o XmlRecord(<<"H">>),
      XmlRecord(<<"P">>),
      XmlRecord(<<"T">>),
      XmlRecord(<<"X">>) \o XmlRecord(<<"F">>),
      PlistRecord(<<"F">>) \o PlistRecord(<<"H">>) \o PlistRecord(<<"F">>),
      XmlRecord(<<"F">>) \o XmlMarker \o <<"H">>,
      XmlMarker \o Rep("a", bufferSize) }

\* the chip the pipeline runs on
PipelineChip ==
    [Name |-> Apple \o <<"M", "1">>, PCoreCount |-> 1, ECoreCount |-> 1, IsUltra |-> FALSE]

-----------------------------------------------------------------------------
(* Initial states and specifications *)

\* NewEventThrottler, and no call of Notify or of GetCPUPercentages yet
InitThrottler ==
    /\ timer = "nil"
    /\ C = <<>>
    /\ callbacks = 0
    /\ sending = 0
    /\ notifyPc = [n \in Notifiers |-> "idle"]
    /\ notified = 0
    /\ events = 0
    /\ calls = NoCalls

\* runHeadless is not called and no widget is drawn
InitIdle ==
    /\ headlessPc = "idle"
    /\ count = 0
    /\ samplesCollected = 0
    /\ stdout = <<>>
    /\ drawPc = "idle"
    /\ cores = <<>>
    /\ inner = [Dx |-> 0, Dy |-> 0]
    /\ cells = {}

InitScanner ==
    /\ rd = 0
    /\ sStart = 0
    /\ sEnd = 0
    /\ sErr = "nil"
    /\ token = <<>>
    /\ tokens = <<>>

InitProducer ==
    /\ retryCount = 0
    /\ parsed = NoParsed
    /\ cmd = "none"

InitChans ==
    /\ cpuMetricsChan = <<>>
    /\ gpuMetricsChan = <<>>
    /\ netdiskMetricsChan = <<>>

InitEstimator ==
    /\ lastCPUTimes = <<>>
    /\ firstRun = TRUE
    /\ cpuCall = NoCall

\* startup is over: mactop --prometheus 9090, run as root
InitStarted ==
    /\ osArgs = <<ArgPrometheus, Port9090>>
    /\ argI = 3
    /\ prometheusPort = Port9090
    /\ interval = 0
    /\ setInterval = FALSE
    /\ updateInterval = DefaultUpdateInterval
    /\ serverOn = TRUE

InitProcess ==
    /\ proc = "running"
    /\ logged = {}
    /\ done = FALSE
    /\ tickerOn = FALSE
    /\ gauges = ZeroGauges
    /\ InitStarted

\* the state when main has made the channels and started both goroutines
Init ==
    /\ stream \in PipelineStreams
    /\ InitScanner
    /\ InitProducer
    /\ InitChans
    /\ InitEstimator
    /\ InitProcess
    /\ pc = "sendInitCPU"
    /\ consumerPc = "start"
    /\ mainPc = "wait"
    /\ sysInfo = PipelineChip
    /\ topology = Unresolved
    /\ InitThrottler
    /\ InitIdle

Next ==
    \/ SendInitCPU
    \/ SendInitGPU
    \/ SendInitNetDisk
    \/ StartCmd
    \/ StartCmdFails
    \/ ScanStep
    \/ ScanRead
    \/ ScanReadEOF
    \/ ProducerSelect
    \/ SendCPU
    \/ SendGPU
    \/ SendNetDisk
    \/ ProducerReturn
    \/ ConsumerStart
    \/ RecvCPU
    \/ RecvGPU
    \/ RecvNetDisk
    \/ Tick
    \/ ConsumerDone
    \/ MainCloseDone
    \/ MainReturn

Spec == Init /\ [][Next]_vars

\* the framer alone
InitFramer ==
    /\ stream \in FramerStreams
    /\ InitScanner
    /\ InitProducer
    /\ InitChans
    /\ InitEstimator
    /\ InitProcess
    /\ pc = "scan"
    /\ consumerPc = "idle"
    /\ mainPc = "idle"
    /\ sysInfo = PipelineChip
    /\ topology = Unresolved
    /\ InitThrottler
    /\ InitIdle

\* for scanner.Scan() { } with an empty body: take the token and scan again
TakeToken ==
    /\ pc = "select"
    /\ pc' = "scan"
    /\ UNCHANGED <<scanVars, notScanVars>>

NextFramer == ScanStep \/ ScanRead \/ ScanReadEOF \/ TakeToken

SpecFramer == InitFramer /\ [][NextFramer]_vars

\* the estimator alone
InitCPU ==
    /\ stream = <<>>
    /\ InitScanner
    /\ InitProducer
    /\ InitChans
    /\ InitEstimator
    /\ InitProcess
    /\ pc = "idle"
    /\ consumerPc = "idle"
    /\ mainPc = "idle"
    /\ sysInfo = PipelineChip
    /\ topology = Unresolved
    /\ InitThrottler
    /\ InitIdle

NextCPU == EstimatorCall

SpecCPU == InitCPU /\ [][NextCPU]_vars

\* the resolver alone
InitTopology ==
    /\ stream = <<>>
    /\ InitScanner
    /\ InitProducer
    /\ InitChans
    /\ InitEstimator
    /\ InitProcess
    /\ pc = "idle"
    /\ consumerPc = "idle"
    /\ mainPc = "idle"
    /\ sysInfo \in SystemInfos
    /\ topology = Unresolved
    /\ InitThrottler
    /\ InitIdle

NextTopology == ResolveTopology

SpecTopology == InitTopology /\ [][NextTopology]_vars

\* what the subprocess writes in the runs that are checked for progress
LiveStreams == { XmlRecord(<<"F">>) }

\* the pipeline as in Init, on the streams of LiveStreams
InitLive ==
    /\ stream \in LiveStreams
    /\ InitScanner
    /\ InitProducer
    /\ InitChans
    /\ InitEstimator
    /\ InitProcess
    /\ pc = "sendInitCPU"
    /\ consumerPc = "start"
    /\ mainPc = "wait"
    /\ sysInfo = PipelineChip
    /\ topology = Unresolved
    /\ InitThrottler
    /\ InitIdle

\* the steps collectMetrics takes by itself; what the subprocess does (it
\* fails to start, writes, closes its stdout) is not among them
ProducerStep ==
    \/ SendInitCPU
    \/ SendInitGPU
    \/ SendInitNetDisk
    \/ StartCmd
    \/ ScanStep
    \/ ProducerSelect
    \/ SendCPU
    \/ SendGPU
    \/ SendNetDisk
    \/ ProducerReturn

\* the steps of the consumer goroutine
ConsumerStep ==
    \/ ConsumerStart
    \/ RecvCPU
    \/ RecvGPU
    \/ RecvNetDisk
    \/ Tick
    \/ ConsumerDone

\* Every goroutine that can run does run, the select of the consumer takes
\* its <-done case once done is closed, and main returns once it has closed
\* done.  Nothing makes the signal arrive or the subprocess write or exit.
Fairness ==
    /\ WF_vars(ProducerStep)
    /\ WF_vars(ConsumerStep)
    /\ WF_vars(ConsumerDone)
    /\ WF_vars(MainReturn)

SpecLive == InitLive /\ [][Next]_vars /\ Fairness

\* main from its first line, on every command line
InitStartup ==
    /\ osArgs \in CommandLines
    /\ argI = 1
    /\ prometheusPort = <<>>
    /\ interval = 0
    /\ setInterval = FALSE
    /\ updateInterval = DefaultUpdateInterval
    /\ serverOn = FALSE
    /\ proc = "running"
    /\ logged = {}
    /\ done = FALSE
    /\ tickerOn = FALSE
    /\ gauges = ZeroGauges
    /\ stream = <<>>
    /\ InitScanner
    /\ InitProducer
    /\ InitChans
    /\ InitEstimator
    /\ pc = "idle"
    /\ consumerPc = "idle"
    /\ mainPc = "args"
    /\ sysInfo = PipelineChip
    /\ topology = Unresolved
    /\ InitThrottler
    /\ InitIdle

\* startup, and the first steps of the two goroutines it starts
NextStartup ==
    \/ ParseArg
    \/ CheckPort
    \/ CheckEuid
    \/ SetupLogfile
    \/ StartServer
    \/ StartPipeline
    \/ ConsumerStart
    \/ SendInitCPU
    \/ SendInitGPU
    \/ SendInitNetDisk
    \/ StartCmd
    \/ StartCmdFails

SpecStartup == InitStartup /\ [][NextStartup]_vars

\* the consumer goroutine in its select loop, its ticker running, and the
\* producer about to send the first CPU metrics
InitCalls ==
    /\ stream = <<>>
    /\ InitScanner
    /\ InitProducer
    /\ InitChans
    /\ InitEstimator
    /\ proc = "running"
    /\ logged = {}
    /\ done = FALSE
    /\ tickerOn = TRUE
    /\ gauges = ZeroGauges
    /\ InitStarted
    /\ pc = "sendInitCPU"
    /\ consumerPc = "select"
    /\ mainPc = "wait"
    /\ sysInfo = PipelineChip
    /\ topology = Unresolved
    /\ InitThrottler
    /\ InitIdle

NextCalls ==
    \/ SendInitCPU
    \/ BeginTickCall
    \/ EndTickCall
    \/ BeginUpdateCall
    \/ EndUpdateCall

SpecCalls == InitCalls /\ [][NextCalls]_vars

\* the throttler alone
InitNotify ==
    /\ stream = <<>>
    /\ InitScanner
    /\ InitProducer
    /\ InitChans
    /\ InitEstimator
    /\ InitProcess
    /\ pc = "idle"
    /\ consumerPc = "idle"
    /\ mainPc = "idle"
    /\ sysInfo = PipelineChip
    /\ topology = Unresolved
    /\ InitThrottler
    /\ InitIdle

NextNotify ==
    \/ \E n \in Notifiers : Notify(n)
    \/ \E n \in Notifiers : NotifyStore(n)
    \/ TimerFires
    \/ CallbackSend
    \/ ReceiveEvent

SpecNotify == InitNotify /\ [][NextNotify]_vars

\* mactop in headless mode with a Prometheus port, about to call
\* runHeadless(count)
InitHeadless ==
    /\ stream = <<>>
    /\ InitScanner
    /\ InitProducer
    /\ InitChans
    /\ InitEstimator
    /\ osArgs = <<ArgPrometheus, Port9090>>
    /\ argI = 3
    /\ prometheusPort = Port9090
    /\ interval = 0
    /\ setInterval = FALSE
    /\ updateInterval = DefaultUpdateInterval
    /\ serverOn = FALSE
    /\ proc = "running"
    /\ logged = {}
    /\ done = FALSE
    /\ tickerOn = FALSE
    /\ gauges = ZeroGauges
    /\ pc = "idle"
    /\ consumerPc = "idle"
    /\ mainPc = "idle"
    /\ sysInfo = PipelineChip
    /\ topology = Unresolved
    /\ InitThrottler
    /\ headlessPc = "init"
    /\ count \in 0..MaxCount
    /\ samplesCollected = 0
    /\ stdout = <<>>
    /\ drawPc = "idle"
    /\ cores = <<>>
    /\ inner = [Dx |-> 0, Dy |-> 0]
    /\ cells = {}

NextHeadless == HeadlessInitFails \/ HeadlessInit \/ HeadlessTick

\* the ticker keeps firing, and the goroutine of runHeadless runs
SpecHeadless ==
    InitHeadless /\ [][NextHeadless]_vars /\ WF_vars(HeadlessInit) /\ WF_vars(HeadlessTick)

\* a widget of every size in a terminal of every size, about to be drawn
InitDraw ==
    /\ stream = <<>>
    /\ InitScanner
    /\ InitProducer
    /\ InitChans
    /\ InitEstimator
    /\ InitProcess
    /\ pc = "idle"
    /\ consumerPc = "idle"
    /\ mainPc = "idle"
    /\ sysInfo = PipelineChip
    /\ topology = Unresolved
    /\ InitThrottler
    /\ headlessPc = "idle"
    /\ count = 0
    /\ samplesCollected = 0
    /\ stdout = <<>>
    /\ drawPc = "draw"
    /\ cores \in {[k \in 1..n |-> RatZero] : n \in 0..MaxDrawCores}
    /\ inner \in [Dx : Widths, Dy : Heights]
    /\ cells = {}

NextDraw == Draw

SpecDraw == InitDraw /\ [][NextDraw]_vars

-----------------------------------------------------------------------------
(* Properties *)

NoStartMarker(s) == ~Contains(s, XmlMarker) /\ ~Contains(s, PlistMarker)

ScanOver == pc = "scanEnd"

(* C1: every publish of the producer, the three placeholder sends and the   *)
(* three sends per record, can complete at once in every reachable state,   *)
(* whatever the consumer has or has not read.                               *)
C1_PublishNeverBlocks ==
    proc = "running" =>
        /\ pc = "sendInitCPU" => ENABLED SendInitCPU
        /\ pc = "sendInitGPU" => ENABLED SendInitGPU
        /\ pc = "sendInitNetDisk" => ENABLED SendInitNetDisk
        /\ pc = "sendCPU" => ENABLED SendCPU
        /\ pc = "sendGPU" => ENABLED SendGPU
        /\ pc = "sendNetDisk" => ENABLED SendNetDisk

\* the producer publishes a record while the consumer, stopped by the
\* cancellation, has left an unread value in the channel
C1_Witness ==
    /\ proc = "running"
    /\ pc = "sendCPU"
    /\ Len(cpuMetricsChan) = ChanCap
    /\ consumerPc = "returned"

(* C2: a value published to a category while the previous one is unread     *)
(* replaces it: after the publish the mailbox holds the published value.    *)
C2_LatestValueWins ==
    [][ /\ (pc = "sendCPU" /\ pc' = "sendGPU") => cpuMetricsChan' = <<parsed.cpu>>
        /\ (pc = "sendGPU" /\ pc' = "sendNetDisk") => gpuMetricsChan' = <<parsed.gpu>>
        /\ (pc = "sendNetDisk" /\ pc' = "scan")
              => netdiskMetricsChan' = <<parsed.netdisk>> ]_vars

\* The records of a stream: every stretch from a start marker through the
\* first end marker after it, scanning left to right.
RECURSIVE RecordsOf(_)
RecordsOf(s) ==
    LET x  == Index(s, XmlMarker)
        p  == Index(s, PlistMarker)
        st == IF x = -1 THEN p ELSE IF p = -1 THEN x ELSE Min(x, p)
        en == IF st >= 0 THEN Index(Slice(s, st, Len(s)), EndMarker) ELSE -1
    IN  IF st < 0 \/ en < 0 THEN <<>>
        ELSE <<Slice(s, st, st + en + 8)>> \o RecordsOf(Slice(s, st + en + 8, Len(s)))

(* C3: a stream of two well-formed records, with or without noise around    *)
(* them, yields under every chunking exactly two tokens, the two records    *)
(* byte for byte and in stream order.                                       *)
C3_TwoRecordsFramed ==
    (stream \in TwoRecordStreams /\ ScanOver /\ sErr = "EOF")
        => /\ Len(tokens) = 2
           /\ tokens = RecordsOf(stream)

NoDuplicates(seq) == \A i, j \in 1..Len(seq) : seq[i] = seq[j] => i = j

(* C4: for every chip, the resolved PCoreIndices and ECoreIndices hold no   *)
(* duplicate, share no index, and together are exactly 0 .. P+E-1.          *)
C4_TopologyPartition ==
    topology # Unresolved =>
        /\ NoDuplicates(topology.PCoreIndices)
        /\ NoDuplicates(topology.ECoreIndices)
        /\ Elems(topology.PCoreIndices) \cap Elems(topology.ECoreIndices) = {}
        /\ Elems(topology.PCoreIndices) \cup Elems(topology.ECoreIndices)
             = 0..(sysInfo.PCoreCount + sysInfo.ECoreCount - 1)

\* a legacy Ultra chip with odd counts has been resolved
C4_Witness ==
    /\ topology # Unresolved
    /\ Contains(sysInfo.Name, M2Ultra)
    /\ sysInfo.PCoreCount = 5
    /\ sysInfo.ECoreCount = 3
    /\ Elems(topology.PCoreIndices) \cup Elems(topology.ECoreIndices) = 0..7

\* the deltas of core k in the last call
Delta(k) ==
    [User   |-> cpuCall.cur[k].User - cpuCall.prev[k].User,
     System |-> cpuCall.cur[k].System - cpuCall.prev[k].System,
     Idle   |-> cpuCall.cur[k].Idle - cpuCall.prev[k].Idle,
     Nice   |-> cpuCall.cur[k].Nice - cpuCall.prev[k].Nice]

Active(d) == d.User + d.System + d.Nice

Total(d) == d.User + d.System + d.Nice + d.Idle

InRange(v) == v.d > 0 /\ 0 <= v.n /\ v.n <= 100 * v.d

(* C5: every per-core value GetCPUPercentages returns lies in [0, 100],     *)
(* whatever the counters did between the calls.                             *)
C5_PercentInRange == \A k \in 1..Len(cpuCall.out) : InRange(cpuCall.out[k])

\* a call after warm-up in which one core's idle counter went down while it
\* was active (its ratio exceeds 100 before the clamp) and another core's
\* counters went down with a positive total (its ratio is negative)
C5_Witness ==
    /\ cpuCall.kind = "delta"
    /\ Len(cpuCall.out) = 2
    /\ Delta(1).Idle < 0 /\ Total(Delta(1)) > 0 /\ Active(Delta(1)) > Total(Delta(1))
    /\ Active(Delta(2)) < 0 /\ Total(Delta(2)) > 0
    /\ RatEq(cpuCall.out[1], Rat(100, 1))
    /\ RatEq(cpuCall.out[2], Rat(0, 1))

(* C6: the first successful call returns as many zeros as the tick query    *)
(* reports cores, stores that snapshot and clears firstRun; only later      *)
(* calls compute deltas, and they compute them against a stored snapshot.   *)
C6_WarmUp ==
    /\ (cpuCall.kind \in {"first", "delta", "panic"} /\ cpuCall.wasFirst) =>
          /\ cpuCall.kind = "first"
          /\ Len(cpuCall.out) = Len(cpuCall.cur)
          /\ \A k \in 1..Len(cpuCall.out) : cpuCall.out[k] = Rat(0, 1)
          /\ lastCPUTimes = cpuCall.cur
          /\ firstRun = FALSE
    /\ (cpuCall.kind \in {"first", "delta", "panic"} /\ ~cpuCall.wasFirst) =>
          /\ cpuCall.kind # "first"
          /\ cpuCall.prev # <<>>
    /\ firstRun => lastCPUTimes = <<>>

\* the warm-up call has run on a two-core snapshot with counters running
C6_Witness ==
    /\ cpuCall.kind = "first"
    /\ Len(cpuCall.cur) = 2
    /\ cpuCall.cur[1].User > 0
    /\ cpuCall.out = Zeros(2)
    /\ lastCPUTimes = cpuCall.cur
    /\ ~firstRun

\* 100 * a / t as a fraction with a positive denominator, clamped to [0, 100]
ClampedRatio(a, t) ==
    LET v == IF t > 0 THEN Rat(100 * a, t) ELSE Rat(-100 * a, -t)
    IN  IF v.n < 0 THEN Rat(0, 1) ELSE IF v.n > 100 * v.d THEN Rat(100, 1) ELSE v

(* C7 as stated: after warm-up each core's result is the clamped ratio      *)
(* 100 * active / total of its deltas, and 0 when the total is zero.        *)
C7_RatioUnlessZero ==
    cpuCall.kind = "delta" =>
        \A k \in 1..Len(cpuCall.out) :
            IF Total(Delta(k)) = 0
              THEN cpuCall.out[k] = Rat(0, 1)
              ELSE RatEq(cpuCall.out[k], ClampedRatio(Active(Delta(k)), Total(Delta(k))))

(* C7 amended: after warm-up each core's result is the clamped ratio        *)
(* 100 * active / total of its deltas against the snapshot the previous     *)
(* successful call stored, and 0 when the total is zero or negative; deltas *)
(* (10, 5, 85, 0) give 15 and all-zero deltas give 0.                       *)
C7_RatioUnlessNotPositive ==
    /\ cpuCall.kind = "delta" =>
          /\ Len(cpuCall.out) = Len(cpuCall.cur)
          /\ lastCPUTimes = cpuCall.cur
          /\ \A k \in 1..Len(cpuCall.out) :
               /\ IF Total(Delta(k)) <= 0
                    THEN cpuCall.out[k] = Rat(0, 1)
                    ELSE RatEq(cpuCall.out[k],
                               ClampedRatio(Active(Delta(k)), Total(Delta(k))))
               /\ Delta(k) = CPUUsage(10, 5, 85, 0) => RatEq(cpuCall.out[k], Rat(15, 1))
               /\ Delta(k) = CPUUsage(0, 0, 0, 0) => cpuCall.out[k] = Rat(0, 1)
    /\ cpuCall.kind = "error" => lastCPUTimes = cpuCall.prev
    /\ cpuCall.kind = "first" => lastCPUTimes = cpuCall.cur

\* a call after warm-up with deltas (10, 5, 85, 0) on one core and nice
\* ticks alone on the other
C7_Witness ==
    /\ cpuCall.kind = "delta"
    /\ Len(cpuCall.out) = 2
    /\ Delta(1) = CPUUsage(10, 5, 85, 0)
    /\ RatEq(cpuCall.out[1], Rat(15, 1))
    /\ Delta(2) = CPUUsage(0, 0, 0, 7)
    /\ RatEq(cpuCall.out[2], Rat(100, 1))

(* C8: the metric extractors never end the process: whatever a decoded      *)
(* record lacks, metrics are produced and the producer goes on.             *)
C8_ExtractorsTotal ==
    ~(proc = "exit1"
      /\ logged \cap {"Failed to get processor data", "Failed to get thermal data"} # {})

(* C9: when the scanner's buffer fills up before a record is complete, the  *)
(* producer ends with a framing error that is reported, and no truncated    *)
(* token of that record has been produced.                                  *)
C9_OverflowReported ==
    (sErr = "ErrTooLong" /\ pc = "returned") =>
        /\ "bufio.Scanner: token too long" \in logged \/ proc = "exit1"
        /\ \A k \in 1..Len(tokens) : Contains(tokens[k], EndMarker)

(* C10: a stream in which neither start marker occurs never yields a token, *)
(* neither while input can still arrive nor at end-of-stream.               *)
C10_NoMarkerNoToken == NoStartMarker(stream) => tokens = <<>>

\* a stream of near-misses of the markers has been read to its end
C10_Witness ==
    /\ NoStartMarker(stream)
    /\ Contains(stream, EndMarker)
    /\ Contains(stream, <<"<", "?", "x", "m">>)
    /\ ScanOver
    /\ sErr = "EOF"
    /\ tokens = <<>>

(* C13: a call whose tick query fails returns an error and leaves            *)
(* lastCPUTimes and firstRun as they were, and the successful call that      *)
(* follows it computes its deltas against the snapshot stored before the     *)
(* failure.                                                                  *)
C13_QueryErrorKeepsState ==
    [][ /\ cpuCall'.kind = "error" =>
              /\ lastCPUTimes' = lastCPUTimes
              /\ firstRun' = firstRun
              /\ cpuCall'.out = <<>>
        /\ (cpuCall.kind = "error" /\ cpuCall'.kind = "delta") =>
              /\ cpuCall'.prev = cpuCall.prev
              /\ cpuCall'.prev = lastCPUTimes ]_vars

\* the tick query has failed after the warm-up, with a two-core snapshot stored
C13_Witness ==
    /\ cpuCall.kind = "error"
    /\ ~cpuCall.wasFirst
    /\ ~firstRun
    /\ Len(cpuCall.prev) = 2
    /\ lastCPUTimes = cpuCall.prev

(* C14: a call after warm-up whose tick query reports another number of     *)
(* cores than the stored snapshot holds returns that many zeros and stores  *)
(* the new snapshot; it neither faults nor computes deltas.                 *)
C14_CoreCountChangeResets ==
    (cpuCall.kind \in {"delta", "panic"} /\ Len(cpuCall.cur) # Len(cpuCall.prev)) =>
        /\ cpuCall.kind = "delta"
        /\ proc = "running"
        /\ cpuCall.out = Zeros(Len(cpuCall.cur))
        /\ lastCPUTimes = cpuCall.cur

\* data[sect][key] of a decoded record, nil when the section is no dictionary
Field(data, sect, key) ==
    LET x == Lookup(data, sect)
    IN  IF x.type = "dict" THEN Lookup(x.v, key) ELSE Absent

\* the extracted value is the raw real number divided by 1000
Thousandth(extracted, raw) ==
    raw.type = "real" => extracted.d > 0 /\ extracted.n * raw.v.d * 1000 = raw.v.n * extracted.d

\* the raw value is the real number n
IsReal(raw, n) == raw.type = "real" /\ raw.v = Rat(n, 1)

ValueFlags == {ArgPrometheus, ArgP, ArgInterval, ArgI}

(* C16: a missing or invalid startup parameter stops the program at         *)
(* startup: a flag without its value, a non-numeric interval and a missing  *)
(* port end the process at the step that meets them, and with an interval   *)
(* that is not positive neither the server nor the subprocess nor the       *)
(* consumer loop is ever started.                                           *)
C16_ConfigErrorStopsAtStartup ==
    [][ /\ (mainPc = "args" /\ argI = Len(osArgs) /\ osArgs[argI] \in ValueFlags)
              => proc' = "exit1"
        /\ (mainPc = "args" /\ argI < Len(osArgs) /\ osArgs[argI] \in {ArgInterval, ArgI}
            /\ Atoi(osArgs[argI + 1]).err)
              => proc' = "exit1"
        /\ (mainPc = "args" /\ argI > Len(osArgs) /\ prometheusPort = <<>>)
              => proc' = "exit1"
        /\ (setInterval' /\ interval' <= 0)
              => ~serverOn' /\ cmd' = "none" /\ consumerPc' = "idle" /\ ~tickerOn'
      ]_vars

(* C17: the command line --prometheus=9090, once its argument has been      *)
(* read, leaves 9090 as the Prometheus port, and the program does not stop  *)
(* for want of a port.                                                      *)
C17_EqualsFormSetsPort ==
    (osArgs = <<ArgPrometheusEq>> /\ argI > 1) =>
        /\ prometheusPort = Port9090
        /\ "Error: Prometheus port is required" \notin logged

(* C18: each of the three channels holds at most one pending value in every *)
(* reachable state.                                                         *)
C18_AtMostOnePending ==
    /\ Len(cpuMetricsChan) <= 1
    /\ Len(gpuMetricsChan) <= 1
    /\ Len(netdiskMetricsChan) <= 1

\* the producer publishes a record while the three channels hold an unread
\* value each
C18_Witness ==
    /\ pc = "sendCPU"
    /\ token # <<>>
    /\ Len(cpuMetricsChan) = 1
    /\ Len(gpuMetricsChan) = 1
    /\ Len(netdiskMetricsChan) = 1
    /\ proc = "running"

\* the producer takes its step on the token it holds, with no cancellation:
\* it moves on, or it ends the process
ProducerStepOnToken == pc = "select" /\ ~done /\ (pc' # pc \/ proc' = "exit1")

(* C19: when a record that passes the marker check does not decode, the     *)
(* producer publishes nothing for it, does not go back to it, and scans     *)
(* for the next record; the process and the subprocess keep running.        *)
C19_DecodeFailureDropsRecord ==
    [][ (ProducerStepOnToken /\ ~MarkersMissing(token) /\ Decode(token).err) =>
            /\ pc' = "scan"
            /\ UNCHANGED <<chanVars, parsed, scanVars>>
            /\ proc' = "running"
            /\ cmd' = "running" ]_vars

\* a record that does not decode has been dropped and the record after it
\* is being published
C19_Witness ==
    /\ "Error decoding plist" \in logged
    /\ Len(tokens) = 2
    /\ Decode(tokens[1]).err
    /\ ~MarkersMissing(tokens[1])
    /\ pc = "sendCPU"
    /\ token = tokens[2]
    /\ proc = "running"

\* a complete record: an accepted start marker first, the end marker last
CompleteRecord(tok) ==
    /\ HasPrefix(tok, XmlMarker) \/ HasPrefix(tok, PlistMarker)
    /\ HasSuffix(tok, EndMarker)

(* C20: a complete record, whichever accepted start marker it begins with,  *)
(* is handed to the decoder: it is not counted as malformed, and when it    *)
(* decodes and holds the processor and thermal data its metrics go on to    *)
(* be published.                                                            *)
C20_EitherStartMarkerDecoded ==
    [][ (ProducerStepOnToken /\ CompleteRecord(token)) =>
            /\ retryCount' = 0
            /\ (~Decode(token).err
                /\ ~parseCPUMetrics(Decode(token).data, NewCPUMetrics).fatal)
                  => /\ pc' = "sendCPU"
                     /\ parsed'.cpu = parseCPUMetrics(Decode(token).data,
                                                      NewCPUMetrics).metrics ]_vars

(* C11: once the subprocess's output has reached end-of-stream with no      *)
(* cancellation requested, the consumer loop and its ticker stop and the    *)
(* program ends.                                                            *)
C11_SubprocessExitShutsDown ==
    (sErr = "EOF" /\ ~done /\ proc = "running")
        ~> (proc # "running")

\* the ticker no longer runs: it was stopped, or the process is gone
TickerStopped == ~tickerOn \/ proc # "running"

(* C12: once done is closed, the consumer's ticker is eventually stopped    *)
(* and the subprocess, if it was started, is eventually terminated.         *)
C12_CancellationStopsAll == done ~> (TickerStopped /\ cmd # "running")

(* C21: the consecutive-failure counter stays within 0..2; a record that    *)
(* fails the marker check with the counter at 2 resets it to 0, a record    *)
(* that passes the marker check resets it to 0, and in both cases the       *)
(* producer goes on with the loop.                                          *)
C21_RetryCounterBounded ==
    [][ /\ retryCount' \in 0..2
        /\ (ProducerStepOnToken /\ MarkersMissing(token)) =>
              /\ retryCount = 2 => retryCount' = 0
              /\ retryCount < 2 => retryCount' = retryCount + 1
              /\ pc' = "scan"
              /\ proc' = "running"
        /\ (ProducerStepOnToken /\ ~MarkersMissing(token)) => retryCount' = 0 ]_vars

\* three records in a row have failed the marker check: the counter is back
\* at 0 and the producer scans on
C21_Witness ==
    /\ Len(tokens) = 3
    /\ \A k \in 1..3 : MarkersMissing(tokens[k])
    /\ retryCount = 0
    /\ pc = "scan"
    /\ proc = "running"

(* C22: a record that passes the marker check and does not decode counts    *)
(* as a failure: the counter goes up as it does for a record with missing   *)
(* markers, and is not reset by that record.                                *)
C22_DecodeFailureCounted ==
    [][ (ProducerStepOnToken /\ ~MarkersMissing(token) /\ Decode(token).err)
            => retryCount' = NextRetryCount(retryCount) ]_vars

\* a start marker stands at offset s of d
StartMarkerAt(d, s) ==
    \/ HasPrefix(Slice(d, s, Len(d)), XmlMarker)
    \/ HasPrefix(Slice(d, s, Len(d)), PlistMarker)

\* d holds a start marker with no end marker after it
Dangling(d) ==
    \E s \in 0..Len(d) :
        StartMarkerAt(d, s) /\ ~Contains(Slice(d, s, Len(d)), EndMarker)

(* C23: when the stream has ended and the buffer holds a start marker with  *)
(* no end marker after it, the framer emits a token; a token without an end *)
(* marker runs from a start marker to the end of the buffer and uses the    *)
(* buffer up, is the last token of the stream and is emitted only after the *)
(* end of the stream; the producer neither decodes nor publishes it, logs   *)
(* nothing, stays alive and goes back to the scanner.                       *)
C23_DanglingTokenOnce ==
    [][ /\ (pc = "scan" /\ sErr = "EOF" /\ Dangling(Data) /\ pc' # pc) =>
              /\ pc' = "select"
              /\ ~Contains(token', EndMarker) =>
                    /\ \E s \in 0..Len(Data) :
                          StartMarkerAt(Data, s) /\ token' = Slice(Data, s, Len(Data))
                    /\ sStart' = sEnd
        /\ \A k \in 1..Len(tokens') :
              ~Contains(tokens'[k], EndMarker) =>
                  k = Len(tokens') /\ sErr' = "EOF" /\ sStart' = sEnd'
        /\ (ProducerStepOnToken /\ ~Contains(token, EndMarker)) =>
              /\ pc' = "scan"
              /\ proc' = "running"
              /\ UNCHANGED <<chanVars, parsed, logged>> ]_vars

\* a complete record and then an unterminated one have been read to the end
\* of the stream: two tokens, the second without end marker and not decoded
C23_Witness ==
    /\ ScanOver
    /\ sErr = "EOF"
    /\ Len(tokens) = 2
    /\ Contains(tokens[1], EndMarker)
    /\ HasPrefix(tokens[2], XmlMarker)
    /\ ~Contains(tokens[2], EndMarker)
    /\ HasSuffix(stream, tokens[2])
    /\ retryCount = 1
    /\ proc = "running"
    /\ logged = {}

(* C24: reading a channel leaves its value in place: no step takes a value  *)
(* out of the CPU, GPU or network/disk channel.                             *)
C24_ReadKeepsValue ==
    [][ /\ Len(cpuMetricsChan') >= Len(cpuMetricsChan)
        /\ Len(gpuMetricsChan') >= Len(gpuMetricsChan)
        /\ Len(netdiskMetricsChan') >= Len(netdiskMetricsChan) ]_vars

\* the executions of GetCPUPercentages in progress
Running == {s \in CallSites : calls[s].at # "idle"}

(* C25: at most one execution of GetCPUPercentages is in progress at any    *)
(* time: the call of the ticker case and the call of updateCPUPrometheus    *)
(* never overlap.                                                           *)
C25_CallsSerialized == Cardinality(Running) <= 1

\* the ticker's call is in progress while CPU metrics wait in the channel
\* for updateCPUPrometheus
C25_Witness ==
    /\ calls["tick"].at = "call"
    /\ Len(cpuMetricsChan) > 0
    /\ ~firstRun

\* the chip takes the M1/M2 Ultra case of GetCoreTopology
IsLegacyUltra(si) == Contains(si.Name, M1Ultra) \/ Contains(si.Name, M2Ultra)

Odd(n) == n % 2 = 1

(* C26: for an M1/M2 Ultra with an odd PCoreCount or ECoreCount the second  *)
(* die's block is the last PCoreCount/2 + ECoreCount/2 indices, P-cores     *)
(* first and E-cores after them, and the first die's block begins with      *)
(* PCoreCount/2 P-cores and ECoreCount/2 E-cores: the leftover indices lie  *)
(* at the tail of the first die's block.                                    *)
C26_LeftoverInFirstDie ==
    (topology # Unresolved /\ IsLegacyUltra(sysInfo)
       /\ (Odd(sysInfo.PCoreCount) \/ Odd(sysInfo.ECoreCount))) =>
        LET totalCores   == sysInfo.PCoreCount + sysInfo.ECoreCount
            pCoresPerDie == sysInfo.PCoreCount \div 2
            eCoresPerDie == sysInfo.ECoreCount \div 2
            P == Elems(topology.PCoreIndices)
            E == Elems(topology.ECoreIndices)
        IN  /\ 0..(pCoresPerDie - 1) \subseteq P
            /\ pCoresPerDie..(pCoresPerDie + eCoresPerDie - 1) \subseteq E
            /\ (totalCores - eCoresPerDie - pCoresPerDie)..(totalCores - eCoresPerDie - 1)
                  \subseteq P
            /\ (totalCores - eCoresPerDie)..(totalCores - 1) \subseteq E

\* the index sets the inline computation of runHeadless sums, for as many
\* percentages as the chip has cores
Inline == InlineIndices(sysInfo, sysInfo.PCoreCount + sysInfo.ECoreCount)

InlineAgrees ==
    /\ Inline.P = Elems(topology.PCoreIndices)
    /\ Inline.E = Elems(topology.ECoreIndices)

(* C27 as stated: for every M1/M2 Ultra that has P-cores and E-cores the    *)
(* inline computation and GetCoreTopology disagree on at least one core.    *)
C27_InlineDisagrees ==
    (topology # Unresolved /\ IsLegacyUltra(sysInfo) /\ sysInfo.IsUltra
       /\ sysInfo.PCoreCount > 0 /\ sysInfo.ECoreCount > 0) => ~InlineAgrees

(* C27 amended: for an M1/M2 Ultra with IsUltra set, the inline computation *)
(* sums the same P-core and E-core indices as GetCoreTopology lists exactly *)
(* when PCoreCount and ECoreCount are both even, as in the shipping 16P+4E  *)
(* and 16P+8E; with an odd count the two differ.                            *)
C27_InlineAgreesOnEvenCounts ==
    (topology # Unresolved /\ IsLegacyUltra(sysInfo) /\ sysInfo.IsUltra) =>
        (InlineAgrees <=> (~Odd(sysInfo.PCoreCount) /\ ~Odd(sysInfo.ECoreCount)))

\* the M1 Ultra with 16P+4E is resolved, and both computations take cores
\* 0..7 and 10..17 as P-cores and cores 8, 9, 18, 19 as E-cores
C27_Witness ==
    /\ sysInfo.Name = Apple \o M1Ultra
    /\ sysInfo.IsUltra
    /\ sysInfo.PCoreCount = 16
    /\ sysInfo.ECoreCount = 4
    /\ topology # Unresolved
    /\ Inline.P = (0..7) \cup (10..17)
    /\ Inline.E = {8, 9, 18, 19}
    /\ InlineAgrees

(* C28: in every branch GetCoreTopology returns exactly PCoreCount indices  *)
(* in PCoreIndices and exactly ECoreCount indices in ECoreIndices.          *)
C28_ListLengthsMatchCounts ==
    topology # Unresolved =>
        /\ Len(topology.PCoreIndices) = sysInfo.PCoreCount
        /\ Len(topology.ECoreIndices) = sysInfo.ECoreCount

(* C29: e.timer is never set while no callback is left to clear it: in      *)
(* every reachable state with e.timer set, a timer is pending whose         *)
(* callback will reset e.timer and send an event.                           *)
C29_TimerNeverStuck == timer = "set" => callbacks > 0

\* a call of Notify that finds e.timer set
NotifyWhilePending ==
    /\ timer = "set"
    /\ notified' = notified + 1

Update == UpdateIndices(sysInfo, sysInfo.PCoreCount + sysInfo.ECoreCount)

(* C31: for a chip resolved with the default layout, updateCPUPrometheus    *)
(* takes its E-core average over the indices of ECoreIndices and its P-core *)
(* average over the indices of PCoreIndices.                                *)
C31_UpdateMatchesTopology ==
    (topology # Unresolved /\ topology.Description = DefaultTopology(sysInfo).Description) =>
        /\ Update.E = Elems(topology.ECoreIndices)
        /\ Update.P = Elems(topology.PCoreIndices)

\* how often x stands in the sequence seq
Occurrences(seq, x) == Cardinality({i \in 1..Len(seq) : seq[i] = x})

\* what runHeadless(count) with count > 0 has printed around the samples it
\* has taken so far; a sample is taken by every pass of the loop, whether or
\* not its Encode succeeds
SeparatorsInPlace ==
    /\ Len(stdout) > 0
    /\ stdout[1] = "["
    /\ Occurrences(stdout, "[") = 1
    /\ Occurrences(stdout, ",") = Max(samplesCollected - 1, 0)
    /\ Occurrences(stdout, "sample") <= samplesCollected
    /\ \A i \in 2..Len(stdout) : stdout[i] = "sample" => stdout[i - 1] \in {"[", ","}
    /\ IF headlessPc = "returned"
         THEN /\ Occurrences(stdout, "]") = 1
              /\ stdout[Len(stdout)] = "]"
              /\ samplesCollected = count
         ELSE /\ Occurrences(stdout, "]") = 0
              /\ samplesCollected < count

\* runHeadless(0): no return and no separator
NoSeparators ==
    /\ headlessPc # "returned"
    /\ \A i \in 1..Len(stdout) : stdout[i] = "sample"

EnoughRoom ==
    LET totalCores == Len(cores)
        cols == IF totalCores > 16 THEN 8 ELSE 4
    IN  /\ inner.Dx \div cols >= minColWidth
        /\ inner.Dy >= (totalCores + cols - 1) \div cols

(* C33: in a terminal with enough room, Draw renders every core index of    *)
(* the widget in exactly one cell, label and bar: none twice, none skipped. *)
C33_EveryCoreOnce ==
    (drawPc = "done" /\ EnoughRoom) =>
        \A k \in 0..(Len(cores) - 1) :
            Cardinality({c \in cells : c.index = k /\ c.bar}) = 1

====
